---- MODULE Spec2Model ----
(***************************************************************************)
(* Model of the spectral (FFT-based) processing core of DAFX_2_Daisy_lib:  *)
(* FFTHandler, SpectralFilter, CrosstalkCanceller, Robotization,           *)
(* Whisperization and PhaseVocoder.                                        *)
(*                                                                         *)
(* Numbers.  A C++ float is modelled as an integer and float arithmetic as *)
(* exact integer arithmetic.  The transform size of the model is 4, for    *)
(* which every twiddle factor exp(-2*pi*i*k/N) is one of 1, -i, -1, i, so  *)
(* the butterflies are exact; the 1/N scale of Inverse is integer division.*)
(* Each class is a record of its fields (with the names of the source) and *)
(* each method is an operator from the object (and arguments) to the new   *)
(* object (and result).  Arrays are functions on 0..size-1.                *)
(***************************************************************************)
EXTENDS Integers, Sequences, FiniteSets, TLC

-----------------------------------------------------------------------------
(* Helpers for C arrays and loops *)

\* a zero-filled float array (std::memset(a, 0, sizeof(a)))
ZeroArray(n) == [i \in 0..(n - 1) |-> 0]

Min(a, b) == IF a < b THEN a ELSE b

\* the value of a buffer nothing has been written to yet
None == <<>>

\* F applied to the value of x, with x evaluated once (a local variable of
\* the source that is assigned once and read many times)
Once(x, F(_)) == CHOOSE y \in {F(v) : v \in {x}} : TRUE

\* a / b for b > 0, rounded to the nearest number of the model (float division
\* rounds to the nearest float); exact when b divides a
Div(a, b) == (2 * a + b) \div (2 * b)

-----------------------------------------------------------------------------
(* struct Complex, fft_handler.h *)

Complex(r, i) == [real |-> r, imag |-> i]

CAdd(a, b) == Complex(a.real + b.real, a.imag + b.imag)

CSub(a, b) == Complex(a.real - b.real, a.imag - b.imag)

CMul(a, b) == Complex(a.real * b.real - a.imag * b.imag,
                      a.real * b.imag + a.imag * b.real)

-----------------------------------------------------------------------------
(* class FFTHandler<N>, fft_handler.h *)

\* cos and sin of q quarter turns (q * pi/2): the only angles a transform
\* of size 1, 2 or 4 uses
CosQuarter(q) == CASE q % 4 = 0 -> 1 [] q % 4 = 1 -> 0
                   [] q % 4 = 2 -> -1 [] OTHER -> 0

SinQuarter(q) == CASE q % 4 = 0 -> 0 [] q % 4 = 1 -> 1
                   [] q % 4 = 2 -> 0 [] OTHER -> -1

RECURSIVE Log2Loop(_, _)
Log2Loop(n, log) == IF 2^log < n THEN Log2Loop(n, log + 1) ELSE log

Log2(n) == Log2Loop(n, 0)

RECURSIVE BitReverseLoop(_, _, _, _)
BitReverseLoop(x, bits, result, i) ==
  IF i < bits
    THEN BitReverseLoop(x \div 2, bits, result * 2 + (x % 2), i + 1)
    ELSE result

\* a slip in the bit reversal: the index is returned unreversed
BitReverse_Identity(x, bits) == x

BitReverse(x, bits) == BitReverseLoop(x, bits, 0, 0)

\* angle = -TWOPI * k / N, i.e. -(4k/N) quarter turns
TwiddleFactor(n, k) ==
  Complex(CosQuarter(-((4 * k) \div n)), SinQuarter(-((4 * k) \div n)))

FFTHandler_Init(n) ==
  [N            |-> n,
   twiddle_     |-> [k \in 0..((n \div 2) - 1) |-> TwiddleFactor(n, k)],
   bit_reverse_ |-> [i \in 0..(n - 1) |-> BitReverse(i, Log2(n))],
   initialized_ |-> TRUE]

\* one butterfly of FFTCore's innermost loop body
Butterfly(fft, buffer, block_start, k, half_block, twiddle_step, inverse) ==
  LET even_idx == block_start + k
      odd_idx  == block_start + k + half_block
      tw0      == fft.twiddle_[k * twiddle_step]
      twiddle  == IF inverse THEN Complex(tw0.real, -tw0.imag) ELSE tw0
      even     == buffer[even_idx]
      odd      == CMul(buffer[odd_idx], twiddle)
  IN [buffer EXCEPT ![even_idx] = CAdd(even, odd),
                    ![odd_idx]  = CSub(even, odd)]

\* the two inner loops of one stage, j counting the butterflies in loop order
RECURSIVE StageLoop(_, _, _, _, _)
StageLoop(fft, buffer, stage, inverse, j) ==
  LET block_size   == 2^(stage + 1)
      half_block   == block_size \div 2
      twiddle_step == fft.N \div block_size
      block_start  == (j \div half_block) * block_size
      k            == j % half_block
  IN IF j < fft.N \div 2
       THEN StageLoop(fft,
                      Butterfly(fft, buffer, block_start, k, half_block,
                                twiddle_step, inverse),
                      stage, inverse, j + 1)
       ELSE buffer

RECURSIVE FFTCoreLoop(_, _, _, _)
FFTCoreLoop(fft, buffer, inverse, stage) ==
  IF stage < Log2(fft.N)
    THEN FFTCoreLoop(fft, StageLoop(fft, buffer, stage, inverse, 0),
                     inverse, stage + 1)
    ELSE buffer

FFTCore(fft, buffer, inverse) == FFTCoreLoop(fft, buffer, inverse, 0)

\* buffer_[bit_reverse_[i]] = (re[i], im[i]) for every i
BitReversedCopy(fft, re, im) ==
  [j \in 0..(fft.N - 1) |->
     LET i == CHOOSE i \in 0..(fft.N - 1) : fft.bit_reverse_[i] = j
     IN Complex(re[i], im[i])]

\* Forward(input, output_real, output_imag)
Forward(fft, input) ==
  LET buffer == FFTCore(fft, BitReversedCopy(fft, input, ZeroArray(fft.N)),
                        FALSE)
  IN [real |-> [i \in 0..(fft.N - 1) |-> buffer[i].real],
      imag |-> [i \in 0..(fft.N - 1) |-> buffer[i].imag]]

\* Forward(input, Complex* output)
ForwardComplex(fft, input) ==
  FFTCore(fft, BitReversedCopy(fft, input, ZeroArray(fft.N)), FALSE)

\* a slip in Inverse: the 1/N normalization left out
Scale_Unnormalized(x, n) == x

\* the 1/N scale of the inverse transform: buffer_[i].real * scale
Scale(x, n) == Div(x, n)

\* Inverse(input_real, input_imag, output)
Inverse(fft, input_real, input_imag) ==
  LET buffer == FFTCore(fft, BitReversedCopy(fft, input_real, input_imag),
                        TRUE)
  IN [i \in 0..(fft.N - 1) |-> Scale(buffer[i].real, fft.N)]

\* Inverse(const Complex* input, output)
InverseComplex(fft, input) ==
  LET buffer == FFTCore(fft,
                  BitReversedCopy(fft,
                                  [i \in 0..(fft.N - 1) |-> input[i].real],
                                  [i \in 0..(fft.N - 1) |-> input[i].imag]),
                  TRUE)
  IN [i \in 0..(fft.N - 1) |-> Scale(buffer[i].real, fft.N)]

-----------------------------------------------------------------------------
(* class SpectralFilter<FIR_LENGTH>, spectral_filter.h *)

\* the FIR_LENGTH template argument of the modelled instance
FIR_LENGTH == 2

SpectralFilter_FFT_SIZE == 2 * FIR_LENGTH

\* pad a FIR_LENGTH-sample array with zeros to FFT_SIZE samples
ZeroPad(a, len, size) == [i \in 0..(size - 1) |-> IF i < len THEN a[i] ELSE 0]

SpectralFilter_UpdateFIRSpectrum(f) ==
  LET spec == Forward(f.fft_, ZeroPad(f.fir_, FIR_LENGTH, SpectralFilter_FFT_SIZE))
  IN [f EXCEPT !.fir_freq_real_ = spec.real, !.fir_freq_imag_ = spec.imag]

SpectralFilter_Init(sample_rate) ==
  SpectralFilter_UpdateFIRSpectrum(
    [sample_rate_    |-> sample_rate,
     input_pos_      |-> 0,
     fft_            |-> FFTHandler_Init(SpectralFilter_FFT_SIZE),
     input_buffer_   |-> ZeroArray(FIR_LENGTH),
     output_buffer_  |-> ZeroArray(FIR_LENGTH),
     overlap_buffer_ |-> ZeroArray(FIR_LENGTH),
     fir_            |-> [i \in 0..(FIR_LENGTH - 1) |-> IF i = 0 THEN 1 ELSE 0],
     fir_freq_real_  |-> ZeroArray(SpectralFilter_FFT_SIZE),
     fir_freq_imag_  |-> ZeroArray(SpectralFilter_FFT_SIZE)])

\* SetFIR(coeffs, length): coeffs is a sequence of length `length`
SpectralFilter_SetFIR(f, coeffs, length) ==
  LET copy_len == Min(length, FIR_LENGTH)
  IN SpectralFilter_UpdateFIRSpectrum(
       [f EXCEPT !.fir_ = [i \in 0..(FIR_LENGTH - 1) |->
                             IF i < copy_len THEN coeffs[i + 1] ELSE 0]])

\* a slip in ProcessBlock: the two halves of the result exchanged
SpectralFilter_ProcessBlock_HalvesSwapped(f) ==
  LET work == Forward(f.fft_, ZeroPad(f.input_buffer_, FIR_LENGTH,
                                      SpectralFilter_FFT_SIZE))
      re == [i \in 0..(SpectralFilter_FFT_SIZE - 1) |->
               work.real[i] * f.fir_freq_real_[i]
                 - work.imag[i] * f.fir_freq_imag_[i]]
      im == [i \in 0..(SpectralFilter_FFT_SIZE - 1) |->
               work.real[i] * f.fir_freq_imag_[i]
                 + work.imag[i] * f.fir_freq_real_[i]]
      time_buffer_ == Inverse(f.fft_, re, im)
  IN [f EXCEPT
        !.output_buffer_  = [i \in 0..(FIR_LENGTH - 1) |->
                               time_buffer_[i + FIR_LENGTH]
                                 + f.overlap_buffer_[i]],
        !.overlap_buffer_ = [i \in 0..(FIR_LENGTH - 1) |-> time_buffer_[i]]]

SpectralFilter_ProcessBlock(f) ==
  LET input_padded == ZeroPad(f.input_buffer_, FIR_LENGTH, SpectralFilter_FFT_SIZE)
      work         == Forward(f.fft_, input_padded)
      re == [i \in 0..(SpectralFilter_FFT_SIZE - 1) |->
               work.real[i] * f.fir_freq_real_[i]
                 - work.imag[i] * f.fir_freq_imag_[i]]
      im == [i \in 0..(SpectralFilter_FFT_SIZE - 1) |->
               work.real[i] * f.fir_freq_imag_[i]
                 + work.imag[i] * f.fir_freq_real_[i]]
      time_buffer_ == Inverse(f.fft_, re, im)
  IN [f EXCEPT
        !.output_buffer_  = [i \in 0..(FIR_LENGTH - 1) |->
                               time_buffer_[i] + f.overlap_buffer_[i]],
        !.overlap_buffer_ = [i \in 0..(FIR_LENGTH - 1) |->
                               time_buffer_[i + FIR_LENGTH]]]

\* float Process(float in): the new object and the returned sample
SpectralFilter_Process(f, in) ==
  LET p  == f.input_pos_
      out == f.output_buffer_[p]
      f1 == [f EXCEPT !.input_buffer_[p]   = in,
                      !.output_buffer_[p]  = f.overlap_buffer_[p],
                      !.overlap_buffer_[p] = 0,
                      !.input_pos_         = p + 1]
      f2 == IF f1.input_pos_ >= FIR_LENGTH
              THEN [SpectralFilter_ProcessBlock(f1) EXCEPT !.input_pos_ = 0]
              ELSE f1
  IN [obj |-> f2, out |-> out]

-----------------------------------------------------------------------------
(* class CrosstalkCanceller<HRIR_LENGTH>, crosstalk_canceller.h *)

\* the default of the HRIR_LENGTH template argument (half of FFT_SIZE, as 256
\* is of 512); an instance keeps its own argument in the field HRIR_LENGTH
HRIR_LENGTH == 2

\* static constexpr size_t FFT_SIZE (a fixed number in the source)
CrosstalkCanceller_FFT_SIZE == 4

ComplexMul(a_r, a_i, b_r, b_i) ==
  [r |-> a_r * b_r - a_i * b_i, i |-> a_r * b_i + a_i * b_r]

\* if (det_mag_sq < 1e-10f) det_mag_sq = 1e-10f: the floor is the smallest
\* positive number of the model
FloorDetMagSq(det_mag_sq) == IF det_mag_sq < 1 THEN 1 ELSE det_mag_sq

\* bin k of H = inv(C'C + beta I) C', from the four spectra of C
InverseFilterBin(C11, C12, C21, C22, beta, k) ==
  LET c11_r == C11.real[k]  c11_i == C11.imag[k]
      c12_r == C12.real[k]  c12_i == C12.imag[k]
      c21_r == C21.real[k]  c21_i == C21.imag[k]
      c22_r == C22.real[k]  c22_i == C22.imag[k]
      ct11_r == c11_r  ct11_i == -c11_i
      ct12_r == c21_r  ct12_i == -c21_i
      ct21_r == c12_r  ct21_i == -c12_i
      ct22_r == c22_r  ct22_i == -c22_i
      a11a == ComplexMul(ct11_r, ct11_i, c11_r, c11_i)
      a11b == ComplexMul(ct12_r, ct12_i, c21_r, c21_i)
      a12a == ComplexMul(ct11_r, ct11_i, c12_r, c12_i)
      a12b == ComplexMul(ct12_r, ct12_i, c22_r, c22_i)
      a21a == ComplexMul(ct21_r, ct21_i, c11_r, c11_i)
      a21b == ComplexMul(ct22_r, ct22_i, c21_r, c21_i)
      a22a == ComplexMul(ct21_r, ct21_i, c12_r, c12_i)
      a22b == ComplexMul(ct22_r, ct22_i, c22_r, c22_i)
  IN Once([a11_r |-> a11a.r + a11b.r + beta, a11_i |-> a11a.i + a11b.i,
           a12_r |-> a12a.r + a12b.r,        a12_i |-> a12a.i + a12b.i,
           a21_r |-> a21a.r + a21b.r,        a21_i |-> a21a.i + a21b.i,
           a22_r |-> a22a.r + a22b.r + beta, a22_i |-> a22a.i + a22b.i],
       LAMBDA A :
     LET deta == ComplexMul(A.a11_r, A.a11_i, A.a22_r, A.a22_i)
         detb == ComplexMul(A.a12_r, A.a12_i, A.a21_r, A.a21_i)
         det_r == deta.r - detb.r
         det_i == deta.i - detb.i
         det_mag_sq == FloorDetMagSq(det_r * det_r + det_i * det_i)
     IN Once([r |-> Div(det_r, det_mag_sq), i |-> Div(-det_i, det_mag_sq)],
          LAMBDA inv_det :
        Once([ai11 |-> ComplexMul(A.a22_r, A.a22_i, inv_det.r, inv_det.i),
              ai12 |-> ComplexMul(-A.a12_r, -A.a12_i, inv_det.r, inv_det.i),
              ai21 |-> ComplexMul(-A.a21_r, -A.a21_i, inv_det.r, inv_det.i),
              ai22 |-> ComplexMul(A.a11_r, A.a11_i, inv_det.r, inv_det.i)],
          LAMBDA AI :
        LET h11a == ComplexMul(AI.ai11.r, AI.ai11.i, ct11_r, ct11_i)
            h11b == ComplexMul(AI.ai12.r, AI.ai12.i, ct21_r, ct21_i)
            h12a == ComplexMul(AI.ai11.r, AI.ai11.i, ct12_r, ct12_i)
            h12b == ComplexMul(AI.ai12.r, AI.ai12.i, ct22_r, ct22_i)
            h21a == ComplexMul(AI.ai21.r, AI.ai21.i, ct11_r, ct11_i)
            h21b == ComplexMul(AI.ai22.r, AI.ai22.i, ct21_r, ct21_i)
            h22a == ComplexMul(AI.ai21.r, AI.ai21.i, ct12_r, ct12_i)
            h22b == ComplexMul(AI.ai22.r, AI.ai22.i, ct22_r, ct22_i)
        IN [H_11_real_ |-> h11a.r + h11b.r, H_11_imag_ |-> h11a.i + h11b.i,
            H_12_real_ |-> h12a.r + h12b.r, H_12_imag_ |-> h12a.i + h12b.i,
            H_21_real_ |-> h21a.r + h21b.r, H_21_imag_ |-> h21a.i + h21b.i,
            H_22_real_ |-> h22a.r + h22b.r, H_22_imag_ |-> h22a.i + h22b.i])))

\* ComputeInverseFilters(); hrir_ll and hrir_lr are what
\* hrir_gen_.Generate(+-speaker_angle_/2, ...) left in the two stack arrays
CrosstalkCanceller_ComputeInverseFilters(c, hrir_ll, hrir_lr) ==
  LET hrir_rl == hrir_lr
      hrir_rr == hrir_ll
      PadAndFFT(hrir) ==
        Forward(c.fft_, ZeroPad(hrir, c.HRIR_LENGTH, CrosstalkCanceller_FFT_SIZE))
  IN Once([C11 |-> PadAndFFT(hrir_ll), C12 |-> PadAndFFT(hrir_lr),
           C21 |-> PadAndFFT(hrir_rl), C22 |-> PadAndFFT(hrir_rr)],
       LAMBDA C :
     Once([k \in 0..(CrosstalkCanceller_FFT_SIZE - 1) |->
             InverseFilterBin(C.C11, C.C12, C.C21, C.C22, c.regularization_, k)],
       LAMBDA H :
     LET Field(name) == [k \in 0..(CrosstalkCanceller_FFT_SIZE - 1) |-> H[k][name]]
     IN [c EXCEPT !.H_11_real_ = Field("H_11_real_"),
                  !.H_11_imag_ = Field("H_11_imag_"),
                  !.H_12_real_ = Field("H_12_real_"),
                  !.H_12_imag_ = Field("H_12_imag_"),
                  !.H_21_real_ = Field("H_21_real_"),
                  !.H_21_imag_ = Field("H_21_imag_"),
                  !.H_22_real_ = Field("H_22_real_"),
                  !.H_22_imag_ = Field("H_22_imag_")]))

\* CrosstalkCanceller<hrir_length>: the constructor's member initializers,
\* then Init(sample_rate)
CrosstalkCanceller_Init(hrir_length, sample_rate, speaker_angle, regularization, hrir_ll, hrir_lr) ==
  CrosstalkCanceller_ComputeInverseFilters(
    [HRIR_LENGTH       |-> hrir_length,
     sample_rate_      |-> sample_rate,
     speaker_angle_    |-> speaker_angle,
     regularization_   |-> regularization,
     input_pos_        |-> 0,
     fft_              |-> FFTHandler_Init(CrosstalkCanceller_FFT_SIZE),
     left_buffer_      |-> ZeroArray(hrir_length),
     right_buffer_     |-> ZeroArray(hrir_length),
     left_out_buffer_  |-> ZeroArray(hrir_length),
     right_out_buffer_ |-> ZeroArray(hrir_length),
     left_overlap_     |-> ZeroArray(hrir_length),
     right_overlap_    |-> ZeroArray(hrir_length),
     H_11_real_ |-> None, H_11_imag_ |-> None,
     H_12_real_ |-> None, H_12_imag_ |-> None,
     H_21_real_ |-> None, H_21_imag_ |-> None,
     H_22_real_ |-> None, H_22_imag_ |-> None],
    hrir_ll, hrir_lr)

\* ProcessBlock up to the two inverse transforms: left_time and right_time
CrosstalkCanceller_BlockResult(c) ==
  Once([left  |-> Forward(c.fft_, ZeroPad(c.left_buffer_, c.HRIR_LENGTH,
                                          CrosstalkCanceller_FFT_SIZE)),
        right |-> Forward(c.fft_, ZeroPad(c.right_buffer_, c.HRIR_LENGTH,
                                          CrosstalkCanceller_FFT_SIZE))],
    LAMBDA X :
  LET Bins == 0..(CrosstalkCanceller_FFT_SIZE - 1)
      left == X.left
      right == X.right
  IN Once([t11 |-> [k \in Bins |-> ComplexMul(c.H_11_real_[k], c.H_11_imag_[k],
                                              left.real[k], left.imag[k])],
           t12 |-> [k \in Bins |-> ComplexMul(c.H_12_real_[k], c.H_12_imag_[k],
                                              right.real[k], right.imag[k])],
           t21 |-> [k \in Bins |-> ComplexMul(c.H_21_real_[k], c.H_21_imag_[k],
                                              left.real[k], left.imag[k])],
           t22 |-> [k \in Bins |-> ComplexMul(c.H_22_real_[k], c.H_22_imag_[k],
                                              right.real[k], right.imag[k])]],
       LAMBDA T :
     Once([work1_real_ |-> [k \in Bins |-> T.t11[k].r + T.t12[k].r],
           work1_imag_ |-> [k \in Bins |-> T.t11[k].i + T.t12[k].i],
           work2_real_ |-> [k \in Bins |-> T.t21[k].r + T.t22[k].r],
           work2_imag_ |-> [k \in Bins |-> T.t21[k].i + T.t22[k].i]],
       LAMBDA W :
     [left_time  |-> Inverse(c.fft_, W.work1_real_, W.work1_imag_),
      right_time |-> Inverse(c.fft_, W.work2_real_, W.work2_imag_)])))

CrosstalkCanceller_ProcessBlock(c) ==
  Once(CrosstalkCanceller_BlockResult(c), LAMBDA t :
    [c EXCEPT
        !.left_out_buffer_  = [i \in 0..(c.HRIR_LENGTH - 1) |->
                                 t.left_time[i] + c.left_overlap_[i]],
        !.right_out_buffer_ = [i \in 0..(c.HRIR_LENGTH - 1) |->
                                 t.right_time[i] + c.right_overlap_[i]],
        !.left_overlap_     = [i \in 0..(c.HRIR_LENGTH - 1) |->
                                 t.left_time[i + c.HRIR_LENGTH]],
        !.right_overlap_    = [i \in 0..(c.HRIR_LENGTH - 1) |->
                                 t.right_time[i + c.HRIR_LENGTH]]])

\* Process that runs ProcessBlock in every call
CrosstalkCanceller_Process_EveryCall(c, left_in, right_in) ==
  LET p  == c.input_pos_
      c1 == [c EXCEPT !.left_buffer_[p]      = left_in,
                      !.right_buffer_[p]     = right_in,
                      !.left_out_buffer_[p]  = 0,
                      !.right_out_buffer_[p] = 0,
                      !.left_overlap_[p]     = 0,
                      !.right_overlap_[p]    = 0,
                      !.input_pos_           = p + 1]
  IN [obj       |-> [CrosstalkCanceller_ProcessBlock(c1) EXCEPT !.input_pos_ = 0],
      left_out  |-> c.left_out_buffer_[p] + c.left_overlap_[p],
      right_out |-> c.right_out_buffer_[p] + c.right_overlap_[p],
      block     |-> <<CrosstalkCanceller_BlockResult(c1)>>]

\* Process(left_in, right_in, &left_out, &right_out): the new object, the two
\* outputs, and whether this call ran ProcessBlock
CrosstalkCanceller_Process(c, left_in, right_in) ==
  LET p  == c.input_pos_
      c1 == [c EXCEPT !.left_buffer_[p]      = left_in,
                      !.right_buffer_[p]     = right_in,
                      !.left_out_buffer_[p]  = 0,
                      !.right_out_buffer_[p] = 0,
                      !.left_overlap_[p]     = 0,
                      !.right_overlap_[p]    = 0,
                      !.input_pos_           = p + 1]
      full == c1.input_pos_ >= c.HRIR_LENGTH
  IN [obj       |-> IF full
                      THEN [CrosstalkCanceller_ProcessBlock(c1)
                              EXCEPT !.input_pos_ = 0]
                      ELSE c1,
      left_out  |-> c.left_out_buffer_[p] + c.left_overlap_[p],
      right_out |-> c.right_out_buffer_[p] + c.right_overlap_[p],
      block     |-> IF full THEN <<CrosstalkCanceller_BlockResult(c1)>>
                            ELSE <<>>]

-----------------------------------------------------------------------------
(* class Windows, windows.h, and the float helpers of the grain effects *)

\* Windows::Hanning(buffer, size): 0.5 * (1 - cos(2*pi*i/size)).  The array
\* holds twice the coefficient (0, 1 or 2 for the sizes of the model), and a
\* product with a window coefficient is halved (WindowMul)
Windows_Hanning(size) ==
  [i \in 0..(size - 1) |-> 1 - CosQuarter((4 * i) \div size)]

\* x * window_[i]
WindowMul(x, w) == Div(x * w, 2)

\* std::sqrt of a non-negative number, rounded to the nearest number of the
\* model
RECURSIVE SqrtLoop(_, _)
SqrtLoop(x, r) == IF (r + 1) * (r + 1) <= x THEN SqrtLoop(x, r + 1) ELSE r

Sqrt(x) == LET r == SqrtLoop(x, 0) IN IF x - r * r > r THEN r + 1 ELSE r

\* FFTHandler::GetMagnitude
GetMagnitude(fft, freq_real, freq_imag) ==
  [i \in 0..(fft.N - 1) |->
     Sqrt(freq_real[i] * freq_real[i] + freq_imag[i] * freq_imag[i])]

-----------------------------------------------------------------------------
(* class Robotization<N>, robotization.h *)

\* the N template argument of the modelled instance
Robotization_N == 4

\* the constructor: it sets initialized_, hop_size_ and mix_ and leaves every
\* other member uninitialized, here holding the arbitrary value `garbage`
Robotization_Construct(garbage) ==
  [initialized_    |-> FALSE,
   hop_size_       |-> Robotization_N \div 4,
   mix_            |-> 1,
   sample_rate_    |-> garbage,
   fft_            |-> None,
   window_         |-> [i \in 0..(Robotization_N - 1) |-> garbage],
   input_buffer_   |-> [i \in 0..(Robotization_N - 1) |-> garbage],
   output_buffer_  |-> [i \in 0..(Robotization_N - 1) |-> garbage],
   overlap_buffer_ |-> [i \in 0..(2 * Robotization_N - 1) |-> garbage],
   input_pos_      |-> garbage,
   output_pos_     |-> garbage]

Robotization_Init(r, sample_rate) ==
  [r EXCEPT !.sample_rate_    = sample_rate,
            !.fft_            = FFTHandler_Init(Robotization_N),
            !.window_         = Windows_Hanning(Robotization_N),
            !.input_buffer_   = ZeroArray(Robotization_N),
            !.output_buffer_  = ZeroArray(Robotization_N),
            !.overlap_buffer_ = ZeroArray(2 * Robotization_N),
            !.input_pos_      = 0,
            !.output_pos_     = 0,
            !.initialized_    = TRUE]

\* SetHopSize without the upper bound on hop_size
Robotization_SetHopSize_Unbounded(r, hop_size) ==
  IF hop_size > 0 THEN [r EXCEPT !.hop_size_ = hop_size] ELSE r

Robotization_SetHopSize(r, hop_size) ==
  IF hop_size > 0 /\ hop_size <= Robotization_N
    THEN [r EXCEPT !.hop_size_ = hop_size]
    ELSE r

\* mix_ = fmax(0, fmin(1, mix))
Robotization_SetMix(r, mix) ==
  [r EXCEPT !.mix_ = IF mix < 0 THEN 0 ELSE IF mix > 1 THEN 1 ELSE mix]

\* the samples ProcessGrain reads from input_buffer_, in grain order, before
\* the window is applied: input_buffer_[(input_pos_ + i) % N]
Robotization_GrainInput(r) ==
  [i \in 0..(Robotization_N - 1) |->
     r.input_buffer_[(r.input_pos_ + i) % Robotization_N]]

\* the accumulator slots ProcessGrain adds to: (output_pos_ + i) % (2N)
Robotization_GrainSlots(r) ==
  {(r.output_pos_ + i) % (2 * Robotization_N) : i \in 0..(Robotization_N - 1)}

Robotization_ProcessGrain(r) ==
  LET N     == Robotization_N
      in    == Robotization_GrainInput(r)
      grain == [i \in 0..(N - 1) |-> WindowMul(in[i], r.window_[i])]
      freq  == Forward(r.fft_, grain)
      magnitude_ == GetMagnitude(r.fft_, freq.real, freq.imag)
      grain2 == Inverse(r.fft_, magnitude_, ZeroArray(N))
      half  == N \div 2
      output_buffer_ == [i \in 0..(N - 1) |->
                           WindowMul(grain2[(i + half) % N], r.window_[i])]
  IN [r EXCEPT
        !.output_buffer_  = output_buffer_,
        !.overlap_buffer_ =
           [j \in 0..(2 * N - 1) |->
              IF j \in Robotization_GrainSlots(r)
                THEN r.overlap_buffer_[j]
                       + output_buffer_[(j - r.output_pos_) % (2 * N)]
                ELSE r.overlap_buffer_[j]]]

\* Process with the roles of mix_ swapped: dry * mix_ + wet * (1 - mix_)
Robotization_Process_MixSwapped(r, in) ==
  LET wet == r.overlap_buffer_[r.output_pos_]
      dry == in
      r1  == [r EXCEPT !.input_buffer_[r.input_pos_]    = in,
                       !.overlap_buffer_[r.output_pos_] = 0,
                       !.input_pos_  = r.input_pos_ + 1,
                       !.output_pos_ = (r.output_pos_ + 1) % Robotization_N]
      grain == r1.input_pos_ >= r1.hop_size_
  IN [obj   |-> IF grain
                  THEN [Robotization_ProcessGrain(r1) EXCEPT !.input_pos_ = 0]
                  ELSE r1,
      out   |-> dry * r.mix_ + wet * (1 - r.mix_),
      grain |-> IF grain THEN <<r1>> ELSE <<>>]

\* float Process(float in) (one iteration of the block loop): the new object,
\* the output sample, and whether this call ran ProcessGrain
Robotization_Process(r, in) ==
  LET wet == r.overlap_buffer_[r.output_pos_]
      dry == in
      r1  == [r EXCEPT !.input_buffer_[r.input_pos_]    = in,
                       !.overlap_buffer_[r.output_pos_] = 0,
                       !.input_pos_  = r.input_pos_ + 1,
                       !.output_pos_ = (r.output_pos_ + 1) % Robotization_N]
      grain == r1.input_pos_ >= r1.hop_size_
  IN [obj   |-> IF grain
                  THEN [Robotization_ProcessGrain(r1) EXCEPT !.input_pos_ = 0]
                  ELSE r1,
      out   |-> dry * (1 - r.mix_) + wet * r.mix_,
      grain |-> IF grain THEN <<r1>> ELSE <<>>]

-----------------------------------------------------------------------------
(* class Whisperization<N>, whisperization.h *)

\* the N template argument of the modelled instance
Whisperization_N == 4

\* a uint32_t as its two 16-bit halves
UInt32(hi, lo) == [hi |-> hi, lo |-> lo]

\* a generator that forgets its state: rand_seed_ * 0u + 1013904223u
LCG_Forgetful(s) == UInt32(15470, 62303)

\* rand_seed_ * 1664525u + 1013904223u in 32-bit unsigned arithmetic
\* (1664525 = 25 * 2^16 + 26125, 1013904223 = 15470 * 2^16 + 62303)
LCG(s) ==
  LET t0 == s.lo * 26125 + 62303
      t1 == ((s.hi * 26125) % 65536) + ((s.lo * 25) % 65536)
              + (t0 \div 65536) + 15470
  IN UInt32(t1 % 65536, t0 % 65536)

\* RandomPhase(): the new object and the phase, float(rand_seed_) / 2^32 * 2pi,
\* in quarter turns (the two high bits of rand_seed_)
Whisperization_RandomPhase(w) ==
  Once(LCG(w.rand_seed_), LAMBDA s :
    [obj |-> [w EXCEPT !.rand_seed_ = s], phase |-> s.hi \div 16384])

\* the constructor: it sets initialized_, hop_size_, mix_ and rand_seed_ and
\* leaves every other member uninitialized, here holding the arbitrary value
\* `garbage`
Whisperization_Construct(garbage) ==
  [initialized_    |-> FALSE,
   hop_size_       |-> Whisperization_N \div 8,
   mix_            |-> 1,
   rand_seed_      |-> UInt32(0, 12345),
   sample_rate_    |-> garbage,
   fft_            |-> None,
   window_         |-> [i \in 0..(Whisperization_N - 1) |-> garbage],
   input_buffer_   |-> [i \in 0..(Whisperization_N - 1) |-> garbage],
   output_buffer_  |-> [i \in 0..(Whisperization_N - 1) |-> garbage],
   overlap_buffer_ |-> [i \in 0..(2 * Whisperization_N - 1) |-> garbage],
   magnitude_      |-> [i \in 0..(Whisperization_N - 1) |-> garbage],
   input_pos_      |-> garbage,
   output_pos_     |-> garbage]

\* Init without the memset of overlap_buffer_: what the constructor left in the
\* accumulator stays
Whisperization_Init_KeepOverlap(w, sample_rate) ==
  [w EXCEPT !.sample_rate_    = sample_rate,
            !.fft_            = FFTHandler_Init(Whisperization_N),
            !.window_         = Windows_Hanning(Whisperization_N),
            !.input_buffer_   = ZeroArray(Whisperization_N),
            !.output_buffer_  = ZeroArray(Whisperization_N),
            !.input_pos_      = 0,
            !.output_pos_     = 0,
            !.initialized_    = TRUE]

\* Init(sample_rate): rand_seed_ and magnitude_ are not touched
Whisperization_Init(w, sample_rate) ==
  [w EXCEPT !.sample_rate_    = sample_rate,
            !.fft_            = FFTHandler_Init(Whisperization_N),
            !.window_         = Windows_Hanning(Whisperization_N),
            !.input_buffer_   = ZeroArray(Whisperization_N),
            !.output_buffer_  = ZeroArray(Whisperization_N),
            !.overlap_buffer_ = ZeroArray(2 * Whisperization_N),
            !.input_pos_      = 0,
            !.output_pos_     = 0,
            !.initialized_    = TRUE]

Whisperization_SetHopSize(w, hop_size) ==
  IF hop_size > 0 /\ hop_size <= Whisperization_N
    THEN [w EXCEPT !.hop_size_ = hop_size]
    ELSE w

\* mix_ = fmax(0, fmin(1, mix))
Whisperization_SetMix(w, mix) ==
  [w EXCEPT !.mix_ = IF mix < 0 THEN 0 ELSE IF mix > 1 THEN 1 ELSE mix]

Whisperization_SetSeed(w, seed) == [w EXCEPT !.rand_seed_ = seed]

\* the loop of ProcessGrain that draws one phase per bin: the object after N
\* RandomPhase calls and the phases drawn (phases[i + 1] is bin i's)
RECURSIVE Whisperization_PhaseLoop(_, _, _)
Whisperization_PhaseLoop(w, i, phases) ==
  IF i = Whisperization_N
    THEN [obj |-> w, phases |-> phases]
    ELSE Once(Whisperization_RandomPhase(w), LAMBDA r :
           Whisperization_PhaseLoop(r.obj, i + 1, Append(phases, r.phase)))

Whisperization_ProcessGrain(w) ==
  LET N    == Whisperization_N
      half == N \div 2
      Idx  == 0..(N - 1)
  IN Once([j \in Idx |->
             LET i == (j + half) % N
             IN WindowMul(w.input_buffer_[(w.input_pos_ + i) % N], w.window_[i])],
       LAMBDA grain :
     Once(Forward(w.fft_, grain), LAMBDA freq :
     Once(GetMagnitude(w.fft_, freq.real, freq.imag), LAMBDA magnitude_ :
     Once(Whisperization_PhaseLoop(w, 0, <<>>), LAMBDA p :
     Once(Inverse(w.fft_,
                  [i \in Idx |-> magnitude_[i] * CosQuarter(p.phases[i + 1])],
                  [i \in Idx |-> magnitude_[i] * SinQuarter(p.phases[i + 1])]),
       LAMBDA grain2 :
     Once([i \in Idx |-> WindowMul(grain2[(i + half) % N], w.window_[i])],
       LAMBDA output_buffer_ :
     [p.obj EXCEPT
        !.magnitude_      = magnitude_,
        !.output_buffer_  = output_buffer_,
        !.overlap_buffer_ =
           [j \in 0..(2 * N - 1) |->
              IF \E i \in Idx : j = (w.output_pos_ + i) % (2 * N)
                THEN w.overlap_buffer_[j]
                       + output_buffer_[(j - w.output_pos_) % (2 * N)]
                ELSE w.overlap_buffer_[j]]]))))))

\* the accumulator slots ProcessGrain adds to: (output_pos_ + i) % (2N)
Whisperization_GrainSlots(w) ==
  {(w.output_pos_ + i) % (2 * Whisperization_N) : i \in 0..(Whisperization_N - 1)}

\* Process (one iteration of the block loop): the new object, the output
\* sample, and whether this call ran ProcessGrain
Whisperization_Process(w, in) ==
  LET wet == w.overlap_buffer_[w.output_pos_]
      dry == in
      w1  == [w EXCEPT !.input_buffer_[w.input_pos_]    = in,
                       !.overlap_buffer_[w.output_pos_] = 0,
                       !.input_pos_  = w.input_pos_ + 1,
                       !.output_pos_ = (w.output_pos_ + 1) % Whisperization_N]
      grain == w1.input_pos_ >= w1.hop_size_
  IN [obj   |-> IF grain
                  THEN [Whisperization_ProcessGrain(w1) EXCEPT !.input_pos_ = 0]
                  ELSE w1,
      out   |-> dry * (1 - w.mix_) + wet * w.mix_,
      grain |-> grain]

-----------------------------------------------------------------------------
(* class PhaseVocoder<FFT_SIZE>, phase_vocoder.h *)

\* the FFT_SIZE template argument of the modelled instance
PhaseVocoder_FFT_SIZE == 8

\* static constexpr size_t HOP_SIZE = FFT_SIZE / 4
PhaseVocoder_HOP_SIZE == PhaseVocoder_FFT_SIZE \div 4

\* The float arithmetic of the signal path (windowing, the transforms, atan2,
\* Princarg, cos and sin, the interpolation) is not evaluated: a float of
\* the signal path is a sum of terms, written as the sequence of its terms
\* in the order they were added, and 0.0f is the empty sum.  A term names
\* where the number came from: <<"grain", k, i>> is sample i of the
\* resampled grain of the k-th frame, <<"phase", k, b>> and <<"accum", k, b>>
\* the measured and the accumulated phase of bin b at the k-th frame, and
\* <<"garbage", g, i>> what entry i of an uninitialized array held.  Input
\* samples are numbers.
SumOf(origin, a, b) == <<<<origin, a, b>>>>

ZeroSums(n) == [i \in 0..(n - 1) |-> <<>>]

\* The pitch ratio is a float counted in quarters: 1.0f is 4, 0.5f is 2 and
\* 2.0f is 8.  A float is a number or NaN; every ordered comparison with NaN
\* is false and NaN != x is true
RatioOne == 4

Float(v) == [nan |-> FALSE, v |-> v]

NaN == [nan |-> TRUE, v |-> 0]

FloatLess(a, b) == ~a.nan /\ ~b.nan /\ a.v < b.v

FloatNotEqual(a, b) == a.nan \/ b.nan \/ a.v # b.v

\* UpdateInterpolationParams with the quotient rounded up
PhaseVocoder_UpdateInterpolationParams_RoundUp(pv, cast) ==
  LET FFT_SIZE == PhaseVocoder_FFT_SIZE
      truncated == IF pv.pitch_ratio_.nan
                     THEN cast
                     ELSE (FFT_SIZE * RatioOne + pv.pitch_ratio_.v - 1)
                            \div pv.pitch_ratio_.v
      grain_length_ == IF truncated > FFT_SIZE THEN FFT_SIZE ELSE truncated
      idx0(i) == (i * FFT_SIZE) \div grain_length_
      Table(old, New(_)) ==
        [i \in 0..(FFT_SIZE - 1) |-> IF i < grain_length_ THEN New(i) ELSE old[i]]
  IN [pv EXCEPT
        !.grain_length_ = grain_length_,
        !.interp_x_     = Table(pv.interp_x_,
                                LAMBDA i : <<i * FFT_SIZE, grain_length_>>),
        !.interp_idx0_  = Table(pv.interp_idx0_, idx0),
        !.interp_idx1_  = Table(pv.interp_idx1_,
                                LAMBDA i : IF idx0(i) + 1 >= FFT_SIZE
                                             THEN FFT_SIZE - 1
                                             ELSE idx0(i) + 1),
        !.interp_frac_  = Table(pv.interp_frac_,
                                LAMBDA i : <<(i * FFT_SIZE) % grain_length_,
                                             grain_length_>>)]

\* UpdateInterpolationParams().  static_cast<size_t>(FFT_SIZE / pitch_ratio_)
\* is undefined for a NaN quotient: `cast` is the number that conversion then
\* produces.  Entries of the four tables at grain_length_ and above keep what
\* they held
PhaseVocoder_UpdateInterpolationParams(pv, cast) ==
  LET FFT_SIZE == PhaseVocoder_FFT_SIZE
      truncated == IF pv.pitch_ratio_.nan
                     THEN cast
                     ELSE (FFT_SIZE * RatioOne) \div pv.pitch_ratio_.v
      grain_length_ == IF truncated > FFT_SIZE THEN FFT_SIZE ELSE truncated
      idx0(i) == (i * FFT_SIZE) \div grain_length_
      Table(old, New(_)) ==
        [i \in 0..(FFT_SIZE - 1) |-> IF i < grain_length_ THEN New(i) ELSE old[i]]
  IN [pv EXCEPT
        !.grain_length_ = grain_length_,
        !.interp_x_     = Table(pv.interp_x_,
                                LAMBDA i : <<i * FFT_SIZE, grain_length_>>),
        !.interp_idx0_  = Table(pv.interp_idx0_, idx0),
        !.interp_idx1_  = Table(pv.interp_idx1_,
                                LAMBDA i : IF idx0(i) + 1 >= FFT_SIZE
                                             THEN FFT_SIZE - 1
                                             ELSE idx0(i) + 1),
        !.interp_frac_  = Table(pv.interp_frac_,
                                LAMBDA i : <<(i * FFT_SIZE) % grain_length_,
                                             grain_length_>>)]

\* the constructor: it sets sample_rate_, pitch_ratio_ and the three
\* positions, frame_counter_ has a default member initializer, and every
\* other member is left uninitialized, here holding the arbitrary value
\* `garbage`
PhaseVocoder_Construct(garbage) ==
  LET Garbage(n) == [i \in 0..(n - 1) |-> garbage]
      GarbageSums(n) == [i \in 0..(n - 1) |-> SumOf("garbage", garbage, i)]
  IN [sample_rate_      |-> 48000,
      pitch_ratio_      |-> Float(RatioOne),
      input_pos_        |-> 0,
      output_pos_       |-> 0,
      grain_pos_        |-> 0,
      grain_length_     |-> garbage,
      frame_counter_    |-> 0,
      fft_              |-> [N |-> PhaseVocoder_FFT_SIZE, initialized_ |-> FALSE],
      analysis_window_  |-> GarbageSums(PhaseVocoder_FFT_SIZE),
      synthesis_window_ |-> GarbageSums(PhaseVocoder_FFT_SIZE),
      prev_phase_       |-> GarbageSums(PhaseVocoder_FFT_SIZE),
      accum_phase_      |-> GarbageSums(PhaseVocoder_FFT_SIZE),
      omega_            |-> Garbage(PhaseVocoder_FFT_SIZE),
      input_buffer_     |-> Garbage(2 * PhaseVocoder_FFT_SIZE),
      output_buffer_    |-> GarbageSums(PhaseVocoder_FFT_SIZE),
      grain_buffer_     |-> GarbageSums(PhaseVocoder_FFT_SIZE),
      interp_x_         |-> Garbage(PhaseVocoder_FFT_SIZE),
      interp_idx0_      |-> Garbage(PhaseVocoder_FFT_SIZE),
      interp_idx1_      |-> Garbage(PhaseVocoder_FFT_SIZE),
      interp_frac_      |-> Garbage(PhaseVocoder_FFT_SIZE)]

\* Init(sample_rate); frame_counter_ is not assigned.  omega_[k] =
\* TWOPI * k * HOP_SIZE / FFT_SIZE, in quarter turns; the tables of fft_ and
\* the window coefficients are not evaluated
PhaseVocoder_Init(pv, sample_rate) ==
  PhaseVocoder_UpdateInterpolationParams(
    [pv EXCEPT
       !.sample_rate_      = sample_rate,
       !.pitch_ratio_      = Float(RatioOne),
       !.input_pos_        = 0,
       !.output_pos_       = 0,
       !.grain_pos_        = 0,
       !.fft_              = [N |-> PhaseVocoder_FFT_SIZE, initialized_ |-> TRUE],
       !.analysis_window_  = [i \in 0..(PhaseVocoder_FFT_SIZE - 1) |->
                                SumOf("Hanning", PhaseVocoder_FFT_SIZE, i)],
       !.synthesis_window_ = [i \in 0..(PhaseVocoder_FFT_SIZE - 1) |->
                                SumOf("Hanning", PhaseVocoder_FFT_SIZE, i)],
       !.input_buffer_     = ZeroArray(2 * PhaseVocoder_FFT_SIZE),
       !.output_buffer_    = ZeroSums(PhaseVocoder_FFT_SIZE),
       !.prev_phase_       = ZeroSums(PhaseVocoder_FFT_SIZE),
       !.accum_phase_      = ZeroSums(PhaseVocoder_FFT_SIZE),
       !.grain_buffer_     = ZeroSums(PhaseVocoder_FFT_SIZE),
       !.omega_            = [k \in 0..(PhaseVocoder_FFT_SIZE - 1) |->
                                (4 * k * PhaseVocoder_HOP_SIZE)
                                  \div PhaseVocoder_FFT_SIZE]],
    0)

\* SetPitchRatio without the upper clamp
PhaseVocoder_SetPitchRatio_NoUpperClamp(pv, ratio, cast) ==
  LET clamped == IF FloatLess(ratio, Float(RatioOne \div 2))
                   THEN Float(RatioOne \div 2) ELSE ratio
  IN IF FloatNotEqual(clamped, pv.pitch_ratio_)
       THEN PhaseVocoder_UpdateInterpolationParams(
              [pv EXCEPT !.pitch_ratio_ = clamped], cast)
       ELSE pv

\* SetPitchRatio(ratio)
PhaseVocoder_SetPitchRatio(pv, ratio, cast) ==
  LET low     == IF FloatLess(ratio, Float(RatioOne \div 2))
                   THEN Float(RatioOne \div 2) ELSE ratio
      clamped == IF FloatLess(Float(2 * RatioOne), low)
                   THEN Float(2 * RatioOne) ELSE low
  IN IF FloatNotEqual(clamped, pv.pitch_ratio_)
       THEN PhaseVocoder_UpdateInterpolationParams(
              [pv EXCEPT !.pitch_ratio_ = clamped], cast)
       ELSE pv

PhaseVocoder_GetPitchRatio(pv) == pv.pitch_ratio_

\* ProcessFrame(), run as the frame-th frame since construction.  The frame
\* read from input_buffer_ at read_start is analysed and resynthesized into
\* time_buffer_ (a working buffer, not kept); what the instance keeps is the
\* phase of each bin, the resampled grain and its overlap-add
PhaseVocoder_ProcessFrame(pv, frame) ==
  LET FFT_SIZE == PhaseVocoder_FFT_SIZE
      Bins     == 0..(FFT_SIZE - 1)
      grain    == [i \in Bins |-> IF i < pv.grain_length_
                                    THEN SumOf("grain", frame, i)
                                    ELSE pv.grain_buffer_[i]]
      \* i with out_idx = (output_pos_ + i) % FFT_SIZE
      offset(out_idx) == (out_idx + FFT_SIZE - pv.output_pos_) % FFT_SIZE
  IN [pv EXCEPT
        !.prev_phase_    = [k \in Bins |-> SumOf("phase", frame, k)],
        !.accum_phase_   = [k \in Bins |-> SumOf("accum", frame, k)],
        !.grain_buffer_  = grain,
        !.output_buffer_ = [out_idx \in Bins |->
                              IF offset(out_idx) < pv.grain_length_
                                THEN pv.output_buffer_[out_idx]
                                       \o grain[offset(out_idx)]
                                ELSE pv.output_buffer_[out_idx]],
        !.grain_pos_     = 0]

\* the first part of Process: the input stored, the next grain sample and the
\* accumulator slot at output_pos_ summed into out, frame_counter_ incremented.
\* frac is 0, so the interpolated grain sample is grain_buffer_[idx0]
PhaseVocoder_ProcessSample(pv, in, zeroed) ==
  LET FFT_SIZE == PhaseVocoder_FFT_SIZE
      playing  == pv.grain_pos_ < pv.grain_length_
      played   == IF playing THEN pv.grain_buffer_[pv.grain_pos_] ELSE <<>>
  IN [obj |-> [pv EXCEPT
                 !.input_buffer_[pv.input_pos_] = in,
                 !.input_pos_     = (pv.input_pos_ + 1) % (FFT_SIZE * 2),
                 !.grain_pos_     = IF playing THEN pv.grain_pos_ + 1
                                    ELSE pv.grain_pos_,
                 !.output_buffer_[pv.output_pos_] =
                   IF zeroed THEN <<>> ELSE pv.output_buffer_[pv.output_pos_],
                 !.output_pos_    = (pv.output_pos_ + 1) % FFT_SIZE,
                 !.frame_counter_ = pv.frame_counter_ + 1],
      out |-> played \o pv.output_buffer_[pv.output_pos_]]

\* Process that leaves the accumulator slot it read as it is
PhaseVocoder_Process_SlotKept(pv, in, frame) ==
  LET s == PhaseVocoder_ProcessSample(pv, in, FALSE)
  IN IF s.obj.frame_counter_ >= PhaseVocoder_HOP_SIZE
       THEN [obj |-> [PhaseVocoder_ProcessFrame(s.obj, frame)
                        EXCEPT !.frame_counter_ = 0],
             out |-> s.out, framed |-> TRUE]
       ELSE [obj |-> s.obj, out |-> s.out, framed |-> FALSE]

\* Process that runs a frame when frame_counter_ exceeds HOP_SIZE
PhaseVocoder_Process_LateFrame(pv, in, frame) ==
  LET s == PhaseVocoder_ProcessSample(pv, in, TRUE)
  IN IF s.obj.frame_counter_ > PhaseVocoder_HOP_SIZE
       THEN [obj |-> [PhaseVocoder_ProcessFrame(s.obj, frame)
                        EXCEPT !.frame_counter_ = 0],
             out |-> s.out, framed |-> TRUE]
       ELSE [obj |-> s.obj, out |-> s.out, framed |-> FALSE]

\* Process(in): the instance after the call, the sample returned and whether
\* ProcessFrame ran (as the frame-th frame)
PhaseVocoder_Process(pv, in, frame) ==
  LET s == PhaseVocoder_ProcessSample(pv, in, TRUE)
  IN IF s.obj.frame_counter_ >= PhaseVocoder_HOP_SIZE
       THEN [obj |-> [PhaseVocoder_ProcessFrame(s.obj, frame)
                        EXCEPT !.frame_counter_ = 0],
             out |-> s.out, framed |-> TRUE]
       ELSE [obj |-> s.obj, out |-> s.out, framed |-> FALSE]

-----------------------------------------------------------------------------
(* Princarg, princarg.h *)

\* Phases passed to Princarg are counted in sixths of pi: M_PI is 6 and TWOPI
\* is 12
M_PI == 6

TWOPI == 2 * M_PI

\* std::floor(a / b) for b > 0
FloorDiv(a, b) == a \div b

\* Princarg with pi subtracted per turn instead of 2 pi
Princarg_HalfTurn(phase_in) ==
  phase_in - M_PI * FloorDiv(phase_in + M_PI, TWOPI)

\* Princarg without the offset of pi under the floor
Princarg_NoOffset(phase_in) ==
  phase_in - TWOPI * FloorDiv(phase_in, TWOPI)

\* phase_in - TWOPI * std::floor((phase_in + M_PI) / TWOPI)
Princarg(phase_in) ==
  phase_in - TWOPI * FloorDiv(phase_in + M_PI, TWOPI)

-----------------------------------------------------------------------------
(* class NoiseGate, noisegate.h and noisegate.cpp *)

\* Amplitudes (samples, the envelope, the thresholds) and the gate gain are
\* counted in thousandths: 1.0f is AmpOne.  Times are in milliseconds, the
\* sample rate in Hz, alpha_ in hundredths.
AmpOne == 1000

AlphaOne == 100

Abs(x) == IF x < 0 THEN -x ELSE x

\* std::pow(10.0f, db / 20.0f), for db a multiple of 20
RECURSIVE DbToLinear(_)
DbToLinear(db) == IF db >= 0 THEN AmpOne ELSE DbToLinear(db + 20) \div 10

\* static_cast<int>(time * sample_rate_ + 0.5f), the time in milliseconds
SampleCount(time_ms, sample_rate) == (time_ms * sample_rate + 500) \div 1000

NoiseGate_RecalculateThresholds(g) ==
  LET lin == DbToLinear(g.threshold_db_)
  IN [g EXCEPT !.threshold_linear_ = lin,
               !.threshold_upper_linear_ = Div(lin * 14142, 10000)]

NoiseGate_RecalculateCoefficients(g) ==
  [g EXCEPT !.hold_samples_ = SampleCount(g.hold_time_, g.sample_rate_),
            !.attack_samples_ = SampleCount(g.attack_time_, g.sample_rate_),
            !.release_samples_ = SampleCount(g.release_time_, g.sample_rate_)]

\* Init(sample_rate): every member is assigned
NoiseGate_Init(sample_rate) ==
  NoiseGate_RecalculateCoefficients(NoiseGate_RecalculateThresholds(
    [sample_rate_ |-> sample_rate,
     threshold_db_ |-> -40,
     hold_time_ |-> 100,
     attack_time_ |-> 1,
     release_time_ |-> 100,
     alpha_ |-> 99,
     threshold_linear_ |-> 0,
     threshold_upper_linear_ |-> 0,
     hold_samples_ |-> 0,
     attack_samples_ |-> 0,
     release_samples_ |-> 0,
     envelope_ |-> 0,
     gate_gain_ |-> AmpOne,
     low_threshold_count_ |-> 0,
     upper_threshold_count_ |-> 0]))

NoiseGate_SetThreshold(g, thresh_db) ==
  NoiseGate_RecalculateThresholds([g EXCEPT !.threshold_db_ = thresh_db])

NoiseGate_SetHoldTime(g, hold_time) ==
  NoiseGate_RecalculateCoefficients([g EXCEPT !.hold_time_ = hold_time])

NoiseGate_SetAttackTime(g, attack_time) ==
  NoiseGate_RecalculateCoefficients([g EXCEPT !.attack_time_ = attack_time])

NoiseGate_SetReleaseTime(g, release_time) ==
  NoiseGate_RecalculateCoefficients([g EXCEPT !.release_time_ = release_time])

NoiseGate_SetAlpha(g, alpha) == [g EXCEPT !.alpha_ = alpha]

\* alpha_ * envelope_ + (1.0f - alpha_) * abs_in
NoiseGate_Envelope(g, in) ==
  Div(g.alpha_ * g.envelope_ + (AlphaOne - g.alpha_) * Abs(in), AlphaOne)

\* the branch "below lower threshold" of Process, the envelope updated
NoiseGate_Below(g) ==
  LET count == g.low_threshold_count_ + 1
  IN [g EXCEPT
        !.low_threshold_count_ = count,
        !.upper_threshold_count_ = 0,
        !.gate_gain_ =
          IF count > g.hold_samples_
               /\ count > g.release_samples_ + g.hold_samples_
            THEN AmpOne - Div(AmpOne * (count - g.hold_samples_),
                              g.release_samples_)
            ELSE 0]

\* the branch "above upper threshold" of Process; 1.0f / 0 is +inf, and fminf
\* of it and 1.0f is 1.0f
NoiseGate_Above(g) ==
  [g EXCEPT
     !.upper_threshold_count_ = g.upper_threshold_count_ + 1,
     !.low_threshold_count_ = 0,
     !.gate_gain_ =
       IF g.gate_gain_ < AmpOne
         THEN IF g.attack_samples_ = 0 THEN AmpOne
              ELSE Min(g.gate_gain_ + Div(AmpOne, g.attack_samples_), AmpOne)
         ELSE AmpOne]

\* Process(in): the instance after the call and the sample returned
NoiseGate_Process(g, in) ==
  LET e  == [g EXCEPT !.envelope_ = NoiseGate_Envelope(g, in)]
      g2 == IF e.envelope_ <= e.threshold_linear_
                 /\ e.envelope_ < e.threshold_upper_linear_
                 /\ e.low_threshold_count_ > 0
              THEN NoiseGate_Below(e)
            ELSE IF e.envelope_ >= e.threshold_upper_linear_
                      /\ e.envelope_ > e.threshold_linear_
                      /\ e.upper_threshold_count_ > 0
              THEN NoiseGate_Above(e)
            ELSE [e EXCEPT !.low_threshold_count_ = 0,
                           !.upper_threshold_count_ = 0]
  IN [obj |-> g2, out |-> Div(in * g2.gate_gain_, AmpOne)]

-----------------------------------------------------------------------------
(* template class CircularBuffer<T, MaxSize>, circularbuffer.h *)

\* the template argument MaxSize
CircularBuffer_MaxSize == 4

\* the constructor: write_ptr_(0), size_(MaxSize); buffer_ is left
\* uninitialized and holds whatever `garbage` the storage held
CircularBuffer_Construct(garbage) ==
  [buffer_ |-> [i \in 0..(CircularBuffer_MaxSize - 1) |-> garbage],
   write_ptr_ |-> 0,
   size_ |-> CircularBuffer_MaxSize]

\* Clear(): memset of the whole array
CircularBuffer_Clear(b) ==
  [b EXCEPT !.buffer_ = ZeroArray(CircularBuffer_MaxSize)]

\* Init(size)
CircularBuffer_Init(b, size) ==
  CircularBuffer_Clear(
    [b EXCEPT !.size_ = IF size <= CircularBuffer_MaxSize
                          THEN size ELSE CircularBuffer_MaxSize,
              !.write_ptr_ = 0])

\* Write with the pointer wrapped at MaxSize instead of size_
CircularBuffer_Write_WrapAtMaxSize(b, sample) ==
  [b EXCEPT !.buffer_[b.write_ptr_] = sample,
            !.write_ptr_ = (b.write_ptr_ + 1) % CircularBuffer_MaxSize]

\* Write(sample)
CircularBuffer_Write(b, sample) ==
  [b EXCEPT !.buffer_[b.write_ptr_] = sample,
            !.write_ptr_ = (b.write_ptr_ + 1) % b.size_]

\* Read(delay_samples)
CircularBuffer_Read(b, delay_samples) ==
  LET clamped  == IF delay_samples >= b.size_
                    THEN b.size_ - 1 ELSE delay_samples
      read_ptr == (b.write_ptr_ + b.size_ - clamped) % b.size_
  IN b.buffer_[read_ptr]

\* Tap(tap_index)
CircularBuffer_Tap(b, tap_index) == CircularBuffer_Read(b, tap_index)

-----------------------------------------------------------------------------
(* template class SimpleHRIR<MaxLength>, simple_hrir.h *)

\* Amplitudes and the filter coefficients are counted in thousandths (1.0f is
\* AmpOne), angles in degrees, the sample rate in Hz.

\* 1000 * std::cos of an angle in degrees, for the angles of the model
CosMilli(deg) ==
  LET d == Abs(deg) % 360
      a == IF d > 180 THEN 360 - d ELSE d
  IN CASE a = 0 -> 1000 [] a = 5 -> 996 [] a = 20 -> 940 [] a = 30 -> 866
       [] a = 36 -> 809 [] a = 60 -> 500 [] a = 72 -> 309 [] a = 84 -> 105
       [] a = 102 -> -208 [] a = 108 -> -309 [] a = 114 -> -407
       [] a = 132 -> -669 [] a = 144 -> -809 [] a = 180 -> -1000

\* const float w0 = c / a = 334.0f / 0.08f
SimpleHRIR_w0 == 4175

\* 1000 * M_PI
PiMilli == 3142

\* the constructor of SimpleHRIR<max_length>: b0_, b1_ and a1_ are left
\* uninitialized
SimpleHRIR_Construct(max_length, garbage) ==
  [MaxLength |-> max_length,
   sample_rate_ |-> 48000,
   length_ |-> 0,
   b0_ |-> garbage, b1_ |-> garbage, a1_ |-> garbage]

\* Init(sample_rate): a 3 ms impulse response, at most MaxLength samples
SimpleHRIR_Init(h, sample_rate) ==
  LET length == (3 * sample_rate) \div 1000
  IN [h EXCEPT !.sample_rate_ = sample_rate,
               !.length_ = IF length > h.MaxLength THEN h.MaxLength ELSE length]

\* the ILD coefficient alfa of Generate
SimpleHRIR_Alfa(theta) ==
  1000 + 25 + Div(975 * CosMilli(((theta + 90) * 6) \div 5), 1000)

\* the coefficients b0_, b1_, a1_ that Generate computes
SimpleHRIR_Coefficients(h, theta) ==
  LET alfa  == SimpleHRIR_Alfa(theta)
      w0_fs == Div(SimpleHRIR_w0 * 1000, h.sample_rate_)
      denom == 1000 + w0_fs
  IN [b0_ |-> Div((alfa + w0_fs) * 1000, denom),
      b1_ |-> Div((w0_fs - alfa) * 1000, denom),
      a1_ |-> -Div((1000 - w0_fs) * 1000, denom)]

\* gdelay of Generate, clamped to length_ - 1 (with length_ = 0 that is
\* SIZE_MAX in the source, and nothing is written)
SimpleHRIR_Delay(h, theta) ==
  LET gdelay ==
        IF Abs(theta) < 90
          THEN Div(h.sample_rate_ * (1000 - CosMilli(theta)),
                   SimpleHRIR_w0 * 1000)
          ELSE Div(h.sample_rate_
                     * (Div((Abs(theta) - 90) * PiMilli, 180) + 1000),
                   SimpleHRIR_w0 * 1000)
  IN IF gdelay >= h.length_ THEN h.length_ - 1 ELSE gdelay

\* y at iteration i of Generate's loop: the response of the first-order
\* filter to a delta at sample 0
RECURSIVE SimpleHRIR_Response(_, _)
SimpleHRIR_Response(k, i) ==
  IF i = 0 THEN k.b0_
  ELSE IF i = 1
    THEN Div(k.b1_ * 1000 - k.a1_ * SimpleHRIR_Response(k, 0), 1000)
    ELSE Div(-k.a1_ * SimpleHRIR_Response(k, i - 1), 1000)

\* Generate with the delayed samples wrapped around the end of the array
SimpleHRIR_Generate_Circular(h, theta, output) ==
  LET k      == SimpleHRIR_Coefficients(h, theta)
      gdelay == SimpleHRIR_Delay(h, theta)
  IN [obj |-> [h EXCEPT !.b0_ = k.b0_, !.b1_ = k.b1_, !.a1_ = k.a1_],
      output |-> [j \in DOMAIN output |->
                    IF j < h.length_
                      THEN SimpleHRIR_Response(k,
                             (j + h.length_ - gdelay) % h.length_)
                      ELSE output[j]]]

\* Generate(theta, output): the generator after the call and the caller's
\* array.  The first length_ entries are zeroed, sample i is written to
\* i + gdelay if that is below length_, the other entries keep what they held
SimpleHRIR_Generate(h, theta, output) ==
  LET k      == SimpleHRIR_Coefficients(h, theta)
      gdelay == SimpleHRIR_Delay(h, theta)
  IN [obj |-> [h EXCEPT !.b0_ = k.b0_, !.b1_ = k.b1_, !.a1_ = k.a1_],
      output |-> [j \in DOMAIN output |->
                    IF j < h.length_
                      THEN IF j >= gdelay
                             THEN SimpleHRIR_Response(k, j - gdelay) ELSE 0
                      ELSE output[j]]]

-----------------------------------------------------------------------------
(* class CrosstalkCanceller with its member hrir_gen_, crosstalk_canceller.h *)

\* a sample of a generated impulse response (thousandths) as a number of the
\* canceller's arithmetic (units)
HrirSample(y) == Div(y, AmpOne)

\* the head of ComputeInverseFilters(): the two Generate calls on the local
\* arrays hrir_ll and hrir_lr, which hold stack_ll and stack_lr on entry
CrosstalkCanceller_GenerateHRIRs(hrir_gen, speaker_angle, stack_ll, stack_lr) ==
  LET ll == SimpleHRIR_Generate(hrir_gen, speaker_angle \div 2, stack_ll)
      lr == SimpleHRIR_Generate(ll.obj, -(speaker_angle \div 2), stack_lr)
  IN [hrir_gen_ |-> lr.obj,
      hrir_ll   |-> [i \in DOMAIN stack_ll |-> HrirSample(ll.output[i])],
      hrir_lr   |-> [i \in DOMAIN stack_lr |-> HrirSample(lr.output[i])]]

\* ComputeInverseFilters() of an instance that holds its generator
CrosstalkCanceller_DesignFilters(c, stack_ll, stack_lr) ==
  Once(CrosstalkCanceller_GenerateHRIRs(c.hrir_gen_, c.speaker_angle_,
                                        stack_ll, stack_lr),
    LAMBDA g :
      CrosstalkCanceller_ComputeInverseFilters(
        [c EXCEPT !.hrir_gen_ = g.hrir_gen_], g.hrir_ll, g.hrir_lr))

\* the constructor and Init(sample_rate), hrir_gen_.Init(sample_rate) included
CrosstalkCanceller_InitGenerated(hrir_length, sample_rate, garbage, stack_ll, stack_lr) ==
  LET gen == SimpleHRIR_Init(SimpleHRIR_Construct(hrir_length, garbage),
                             sample_rate)
  IN Once(CrosstalkCanceller_GenerateHRIRs(gen, 10, stack_ll, stack_lr),
       LAMBDA g :
         [hrir_gen_ |-> g.hrir_gen_]
           @@ CrosstalkCanceller_Init(hrir_length, sample_rate, 10, 0,
                                      g.hrir_ll, g.hrir_lr))

\* SetSpeakerAngle that stores the angle and keeps the filters
CrosstalkCanceller_SetSpeakerAngle_Stale(c, angle, stack_ll, stack_lr) ==
  [c EXCEPT !.speaker_angle_ = angle]

\* SetSpeakerAngle(angle)
CrosstalkCanceller_SetSpeakerAngle(c, angle, stack_ll, stack_lr) ==
  IF angle # c.speaker_angle_
    THEN CrosstalkCanceller_DesignFilters([c EXCEPT !.speaker_angle_ = angle],
                                          stack_ll, stack_lr)
    ELSE c

\* SetRegularization(beta)
CrosstalkCanceller_SetRegularization(c, beta, stack_ll, stack_lr) ==
  IF beta # c.regularization_
    THEN CrosstalkCanceller_DesignFilters([c EXCEPT !.regularization_ = beta],
                                          stack_ll, stack_lr)
    ELSE c

\* the inverse filter matrix H of an instance
CrosstalkCanceller_H(c) ==
  <<c.H_11_real_, c.H_11_imag_, c.H_12_real_, c.H_12_imag_,
    c.H_21_real_, c.H_21_imag_, c.H_22_real_, c.H_22_imag_>>

-----------------------------------------------------------------------------
(* The transform size of each effect, from its template argument *)

\* a & b on size_t
RECURSIVE BitAnd(_, _)
BitAnd(a, b) ==
  IF a = 0 \/ b = 0 THEN 0
  ELSE (a % 2) * (b % 2) + 2 * BitAnd(a \div 2, b \div 2)

\* static_assert((N & (N - 1)) == 0, "FFT size must be power of 2")
FFTHandler_StaticAssert(N) == BitAnd(N, N - 1) = 0

\* the effects with an FFTHandler member
Effects ==
  {"PhaseVocoder", "SpectralFilter", "Robotization", "Whisperization",
   "CrosstalkCanceller"}

\* the default of each effect's template argument
DefaultArgument(effect) ==
  CASE effect = "PhaseVocoder"       -> 2048
    [] effect = "SpectralFilter"     -> 1280
    [] effect = "Robotization"       -> 1024
    [] effect = "Whisperization"     -> 512
    [] effect = "CrosstalkCanceller" -> 256

\* the N of the FFTHandler<N> member fft_ of effect<arg>
TransformSize(effect, arg) ==
  CASE effect = "PhaseVocoder"       -> arg
    [] effect = "SpectralFilter"     -> 2 * arg
    [] effect = "Robotization"       -> arg
    [] effect = "Whisperization"     -> arg
    [] effect = "CrosstalkCanceller" -> 512

-----------------------------------------------------------------------------
(* class Vibrato, vibrato.h and vibrato.cpp *)

\* Times (width_) are counted in ten-thousandths of a second, frequencies in
\* Hz, samples, the modulation and the tap position in thousandths.

\* 1000 * std::sin of an angle given in tenths of a degree (a multiple of 4.5
\* degrees)
SinMilli(tenths) ==
  LET a == tenths % 3600
      b == IF a > 1800 THEN a - 1800 ELSE a
      c == IF b > 900 THEN 1800 - b ELSE b
      k == c \div 45
      s == CASE k = 0 -> 0 [] k = 1 -> 78 [] k = 2 -> 156 [] k = 3 -> 233
             [] k = 4 -> 309 [] k = 5 -> 383 [] k = 6 -> 454 [] k = 7 -> 522
             [] k = 8 -> 588 [] k = 9 -> 649 [] k = 10 -> 707
             [] k = 11 -> 760 [] k = 12 -> 809 [] k = 13 -> 853
             [] k = 14 -> 891 [] k = 15 -> 924 [] k = 16 -> 951
             [] k = 17 -> 972 [] k = 18 -> 988 [] k = 19 -> 997
             [] k = 20 -> 1000
  IN IF a > 1800 THEN -s ELSE s

\* static_cast<int>(width_ * sample_rate_ + 0.5f)
Vibrato_WidthInSamples(width, sample_rate) ==
  (width * sample_rate + 5000) \div 10000

\* RecalculateCoefficients(); mod_freq_samples_ is kept as the pair
\* freq_ / sample_rate_
Vibrato_RecalculateCoefficients(v) ==
  LET delay_samples == Vibrato_WidthInSamples(v.width_, v.sample_rate_)
      width_samples == Vibrato_WidthInSamples(v.width_, v.sample_rate_)
  IN [v EXCEPT
        !.delay_samples_    = delay_samples,
        !.mod_freq_samples_ = <<v.freq_, v.sample_rate_>>,
        !.delay_line_size_  = 2 + delay_samples + width_samples * 2,
        !.width_samples_    = IF width_samples > delay_samples
                                THEN delay_samples ELSE width_samples]

\* the constructor initializes no member: each holds the arbitrary value
\* `garbage`, and delay_line_ points nowhere (an array of length 0)
Vibrato_Construct(garbage) ==
  [sample_rate_      |-> garbage,
   freq_             |-> garbage,
   width_            |-> garbage,
   delay_samples_    |-> garbage,
   width_samples_    |-> garbage,
   mod_freq_samples_ |-> <<garbage, garbage>>,
   delay_line_size_  |-> garbage,
   delay_line_       |-> <<>>,
   write_ptr_        |-> garbage]

\* Init(sample_rate): freq_ = 5.0f, width_ = 0.005f, and delay_line_ is
\* allocated with the delay_line_size_ of that width.  The array is a
\* sequence here: element j + 1 is delay_line_[j], and its length is the
\* allocated length
Vibrato_Init(v, sample_rate) ==
  LET v1 == Vibrato_RecalculateCoefficients(
              [v EXCEPT !.sample_rate_ = sample_rate,
                        !.freq_        = 5,
                        !.width_       = 50,
                        !.write_ptr_   = 0])
  IN [v1 EXCEPT !.delay_line_ = [j \in 1..v1.delay_line_size_ |-> 0]]

Vibrato_SetFrequency(v, freq) ==
  Vibrato_RecalculateCoefficients([v EXCEPT !.freq_ = freq])

Vibrato_SetWidth(v, width) ==
  Vibrato_RecalculateCoefficients([v EXCEPT !.width_ = width])

\* the indices of one Process call: where it writes, and read_ptr and
\* read_ptr_prev with the fractional part of the tap
Vibrato_Tap(v) ==
  LET angle == (3600 * v.mod_freq_samples_[1] * v.write_ptr_)
                 \div v.mod_freq_samples_[2]
      mod   == SinMilli(angle)
      tap   == 1000 + 1000 * v.delay_samples_ + v.width_samples_ * mod
      i     == tap \div 1000
      read_ptr == (v.write_ptr_ - i + v.delay_line_size_) % v.delay_line_size_
  IN [write         |-> v.write_ptr_,
      frac          |-> tap - 1000 * i,
      read_ptr      |-> read_ptr,
      read_ptr_prev |-> (read_ptr - 1 + v.delay_line_size_)
                          % v.delay_line_size_]

\* Process(in): the instance after the call, the sample returned and the
\* indices used.  An access past the allocated length is undefined: such a
\* write lands outside the array and leaves it as it is, such a read gives
\* the arbitrary value `garbage`
Vibrato_Process(v, in, garbage) ==
  LET t    == Vibrato_Tap(v)
      line == IF t.write < Len(v.delay_line_)
                THEN [v.delay_line_ EXCEPT ![t.write + 1] = in]
                ELSE v.delay_line_
      At(j) == IF j < Len(line) THEN line[j + 1] ELSE garbage
  IN [obj |-> [v EXCEPT !.delay_line_ = line,
                        !.write_ptr_  = (v.write_ptr_ + 1) % v.delay_line_size_],
      out |-> Div(At(t.read_ptr) * t.frac
                    + At(t.read_ptr_prev) * (1000 - t.frac), 1000),
      tap |-> t]

-----------------------------------------------------------------------------
(* State *)

VARIABLES
  flt,        \* a SpectralFilter instance
  flt_in,     \* the samples passed to flt's Process so far, oldest first
  flt_out,    \* the samples flt's Process returned so far, oldest first
  fft,        \* an FFTHandler instance
  fft_input,  \* the time-domain buffer handed to Forward
  fft_freq,   \* what Forward wrote: split real/imag arrays or a Complex array
  fft_output, \* what Inverse wrote
  fft_pc,     \* the caller's position: "new", "ready", then "split" or
              \* "complex" (the Forward interface used), then "split_done"
              \* or "complex_done"
  cc,         \* a CrosstalkCanceller instance
  cc_in,      \* the <<left_in, right_in>> pairs passed to cc's Process so far
  cc_out,     \* the <<left_out, right_out>> pairs it returned so far
  cc_time,    \* left_time/right_time of every ProcessBlock run so far
  rb,         \* a Robotization instance
  rb_steps,   \* the number of Process calls made on rb
  rb_recent,  \* the last N samples passed to rb's Process, oldest first
              \* (zeros before the start of the stream)
  rb_last,    \* the last Process call: <<in, out, the mix_ it ran with, the
              \* accumulator sample it read>>
  rb_grain,   \* <<the samples ProcessGrain read>> if the last Process call
              \* ran ProcessGrain, else <<>>
  wh1, wh2,   \* two Whisperization instances, fed the same input
  wh_seed,    \* per instance, the seed it was last given (by the constructor
              \* or SetSeed)
  wh_steps,   \* the number of Process calls made on each of wh1 and wh2
  wh_last,    \* the last Process calls: <<in, wh1's out, wh2's out>>
  wh_grain,   \* TRUE once ProcessGrain has run
  wh_nonzero, \* TRUE once a non-zero sample has been passed to Process
  wh_differ,  \* TRUE once wh1's and wh2's outputs have differed at a sample
  pv,         \* a PhaseVocoder instance
  pv_calls,   \* the number of SetPitchRatio calls made on pv
  pv_last,    \* <<the argument of the last SetPitchRatio call>> since
              \* construction or Init, <<>> if there was none
  pv_steps,   \* the number of Process calls made on pv
  pv_frames,  \* the number of ProcessFrame runs so far
  pv_out,     \* <<the last Process call>>: the sum it returned, whether it
              \* ran ProcessFrame, the pitch ratio it ran with and the number
              \* of accumulator slots its frame added to; <<>> before the
              \* first call
  pa_phase,   \* the phase Princarg is first applied to
  pa_out,     \* the results so far: of Princarg(pa_phase), then of Princarg
              \* applied to that result
  duo,        \* <<two SpectralFilter instances>>, each driven by its own
              \* thread, their calls interleaved
  duo_alone,  \* <<the same two instances>>, each run alone with the calls
              \* its thread made
  duo_last,   \* the last call: <<instance, operation, what it returned
              \* interleaved, what it returned alone>>
  duo_calls,  \* the number of calls made so far, on both instances
  ng,         \* a NoiseGate instance
  ng_steps,   \* the number of Process calls made on ng
  ng_quiet,   \* the number of Process calls, up to and including the last,
              \* since the envelope was last above threshold_linear_
  ng_last,    \* the last Process call: <<in, out>>
  cb,         \* a CircularBuffer instance
  cb_inited,  \* TRUE once Init has been called on cb
  cb_recent,  \* the last MaxSize samples written since Init, newest first
              \* (zeros before the first)
  cb_writes,  \* the number of Write calls since Init
  cb_calls,   \* the number of Init and Write calls made on cb
  cb_last,    \* the last read, if nothing was written since: <<delay,
              \* what Read returned, what Tap returned>>
  hr,         \* a SimpleHRIR generator
  hr_last,    \* <<the last Generate call since Init>>: its azimuth and the
              \* caller's array after the call; <<>> if there was none
  hr_calls,   \* the number of Init and Generate calls made on hr
  ccg,        \* the CrosstalkCanceller with its generator, or None
  ccg_ops,    \* the calls made on it since Init
  sz,         \* the instantiated effect template, or None
  vb,         \* the Vibrato, or None
  vb_steps,   \* the number of Process calls made
  vb_last,    \* the indices used by the last Process call
  rb_age      \* per accumulator slot: the number of Process calls since the
              \* oldest non-zero contribution not yet read and zeroed, -1 if
              \* none

fltVars == <<flt, flt_in, flt_out>>
fftVars == <<fft, fft_input, fft_freq, fft_output, fft_pc>>
ccVars == <<cc, cc_in, cc_out, cc_time>>
rbVars == <<rb, rb_steps, rb_recent, rb_last, rb_grain, rb_age>>
whVars == <<wh1, wh2, wh_seed, wh_steps, wh_last, wh_grain, wh_nonzero, wh_differ>>
pvVars == <<pv, pv_calls, pv_last, pv_steps, pv_frames, pv_out>>
paVars == <<pa_phase, pa_out>>
duoVars == <<duo, duo_alone, duo_last, duo_calls>>
ngVars == <<ng, ng_steps, ng_quiet, ng_last>>
cbVars == <<cb, cb_inited, cb_recent, cb_writes, cb_calls, cb_last>>
hrVars == <<hr, hr_last, hr_calls>>
ccgVars == <<ccg, ccg_ops>>
szVars == <<sz>>
vbVars == <<vb, vb_steps, vb_last>>
vars == <<fltVars, fftVars, ccVars, rbVars, whVars, pvVars, paVars, duoVars, ngVars, cbVars, hrVars, ccgVars, szVars, vbVars>>

\* what the actions of one component leave alone
notFlt == <<fftVars, ccVars, rbVars, whVars, pvVars, paVars, duoVars, ngVars, cbVars, hrVars, ccgVars, szVars, vbVars>>
notFft == <<fltVars, ccVars, rbVars, whVars, pvVars, paVars, duoVars, ngVars, cbVars, hrVars, ccgVars, szVars, vbVars>>
notCc == <<fltVars, fftVars, rbVars, whVars, pvVars, paVars, duoVars, ngVars, cbVars, hrVars, ccgVars, szVars, vbVars>>
notRb == <<fltVars, fftVars, ccVars, whVars, pvVars, paVars, duoVars, ngVars, cbVars, hrVars, ccgVars, szVars, vbVars>>
notWh == <<fltVars, fftVars, ccVars, rbVars, pvVars, paVars, duoVars, ngVars, cbVars, hrVars, ccgVars, szVars, vbVars>>
notPv == <<fltVars, fftVars, ccVars, rbVars, whVars, paVars, duoVars, ngVars, cbVars, hrVars, ccgVars, szVars, vbVars>>
notPa == <<fltVars, fftVars, ccVars, rbVars, whVars, pvVars, duoVars, ngVars, cbVars, hrVars, ccgVars, szVars, vbVars>>
notDuo == <<fltVars, fftVars, ccVars, rbVars, whVars, pvVars, paVars, ngVars, cbVars, hrVars, ccgVars, szVars, vbVars>>
notNg == <<fltVars, fftVars, ccVars, rbVars, whVars, pvVars, paVars, duoVars, cbVars, hrVars, ccgVars, szVars, vbVars>>
notCb == <<fltVars, fftVars, ccVars, rbVars, whVars, pvVars, paVars, duoVars, ngVars, hrVars, ccgVars, szVars, vbVars>>
notHr == <<fltVars, fftVars, ccVars, rbVars, whVars, pvVars, paVars, duoVars, ngVars, cbVars, ccgVars, szVars, vbVars>>
notCcg == <<fltVars, fftVars, ccVars, rbVars, whVars, pvVars, paVars, duoVars, ngVars, cbVars, hrVars, szVars, vbVars>>
notSz == <<fltVars, fftVars, ccVars, rbVars, whVars, pvVars, paVars, duoVars, ngVars, cbVars, hrVars, ccgVars, vbVars>>
notVb == <<fltVars, fftVars, ccVars, rbVars, whVars, pvVars, paVars, duoVars, ngVars, cbVars, hrVars, ccgVars, szVars>>

\* the components a scenario does not use stay as constructed
FltIdle == flt = None /\ flt_in = <<>> /\ flt_out = <<>>
FftIdle == fft = None /\ fft_input = None /\ fft_freq = None
             /\ fft_output = None /\ fft_pc = "idle"
CcIdle == cc = None /\ cc_in = <<>> /\ cc_out = <<>> /\ cc_time = <<>>
RbIdle == rb = None /\ rb_steps = 0 /\ rb_recent = None /\ rb_last = None
            /\ rb_grain = <<>> /\ rb_age = None
WhIdle == wh1 = None /\ wh2 = None /\ wh_seed = None /\ wh_steps = 0
            /\ wh_last = None /\ wh_grain = FALSE /\ wh_nonzero = FALSE
            /\ wh_differ = FALSE
PvIdle == pv = None /\ pv_calls = 0 /\ pv_last = <<>> /\ pv_steps = 0
            /\ pv_frames = 0 /\ pv_out = <<>>
PaIdle == pa_phase = 0 /\ pa_out = <<>>
DuoIdle == duo = None /\ duo_alone = None /\ duo_last = None /\ duo_calls = 0
NgIdle == ng = None /\ ng_steps = 0 /\ ng_quiet = 0 /\ ng_last = None
CbIdle == cb = None /\ cb_inited = FALSE /\ cb_recent = None /\ cb_writes = 0
            /\ cb_calls = 0 /\ cb_last = None

HrIdle == hr = None /\ hr_last = <<>> /\ hr_calls = 0

CcgIdle == ccg = None /\ ccg_ops = <<>>

SzIdle == sz = None

VbIdle == vb = None /\ vb_steps = 0 /\ vb_last = <<>>

\* every object but the one the scenario `used` is about is not constructed
IdleExcept(used) ==
  /\ IF used = "flt" THEN TRUE ELSE FltIdle
  /\ IF used = "fft" THEN TRUE ELSE FftIdle
  /\ IF used = "cc" THEN TRUE ELSE CcIdle
  /\ IF used \in {"rb", "rb wh"} THEN TRUE ELSE RbIdle
  /\ IF used \in {"wh", "rb wh"} THEN TRUE ELSE WhIdle
  /\ IF used = "pv" THEN TRUE ELSE PvIdle
  /\ IF used = "pa" THEN TRUE ELSE PaIdle
  /\ IF used = "duo" THEN TRUE ELSE DuoIdle
  /\ IF used = "ng" THEN TRUE ELSE NgIdle
  /\ IF used = "cb" THEN TRUE ELSE CbIdle
  /\ IF used = "hr" THEN TRUE ELSE HrIdle
  /\ IF used = "ccg" THEN TRUE ELSE CcgIdle
  /\ IF used = "sz" THEN TRUE ELSE SzIdle
  /\ IF used = "vb" THEN TRUE ELSE VbIdle

\* bounds of the SpectralFilter scenarios
FltMaxSample == 1
FltMaxTap == 1
FltMaxSteps == 6

FltSamples == (-FltMaxSample)..FltMaxSample
FltTaps == 0..FltMaxTap

FltInit ==
  /\ flt = SpectralFilter_Init(48000)
  /\ flt_in = <<>>
  /\ flt_out = <<>>
  /\ IdleExcept("flt")

\* SetFIR before streaming starts, with a kernel of 1..FIR_LENGTH taps
FltSetFIR ==
  /\ flt_in = <<>>
  /\ \E length \in 1..FIR_LENGTH :
       \E coeffs \in [1..length -> FltTaps] :
         flt' = SpectralFilter_SetFIR(flt, coeffs, length)
  /\ UNCHANGED <<flt_in, flt_out>>
  /\ UNCHANGED notFlt

FltProcess ==
  /\ Len(flt_in) < FltMaxSteps
  /\ \E in \in FltSamples :
       LET r == SpectralFilter_Process(flt, in)
       IN /\ flt' = r.obj
          /\ flt_in' = Append(flt_in, in)
          /\ flt_out' = Append(flt_out, r.out)
  /\ UNCHANGED notFlt

FltNext == FltSetFIR \/ FltProcess

SpecFilter == FltInit /\ [][FltNext]_vars

\* sample m (0-based) of the linear convolution x*h of the input stream x
\* (a sequence) with the kernel h (an array of FIR_LENGTH taps)
LinearConvolution(x, h, m) ==
  LET Term(j) == IF m - j >= 0 /\ m - j < Len(x) THEN h[j] * x[m - j + 1] ELSE 0
      RECURSIVE Sum(_)
      Sum(j) == IF j < FIR_LENGTH THEN Term(j) + Sum(j + 1) ELSE 0
  IN Sum(0)

\* C1 (as claimed): with the kernel installed before streaming, every output
\* sample is the linear convolution of the input with the kernel, delayed by
\* FIR_LENGTH samples (zero during the first block)
C1_OutputIsDelayedConvolution ==
  \A n \in 1..Len(flt_out) :
    flt_out[n] = IF n - 1 < FIR_LENGTH
                   THEN 0
                   ELSE LinearConvolution(flt_in, flt.fir_, n - 1 - FIR_LENGTH)

UnityKernel == [i \in 0..(FIR_LENGTH - 1) |-> IF i = 0 THEN 1 ELSE 0]

\* C10: with the default kernel (unity at tap 0) the output is the input
\* delayed by exactly FIR_LENGTH samples, and zero before that
C10_DryStateIsDelay ==
  flt.fir_ = UnityKernel =>
    \A n \in 1..Len(flt_out) :
      flt_out[n] = IF n - 1 < FIR_LENGTH THEN 0 ELSE flt_in[n - FIR_LENGTH]

\* C10 witness: the default kernel, at least two blocks emitted after the
\* latency block, with non-zero samples emitted in both
C10_Witness ==
  /\ flt.fir_ = UnityKernel
  /\ Len(flt_out) >= 3 * FIR_LENGTH
  /\ flt_out[FIR_LENGTH + 1] # 0
  /\ flt_out[3 * FIR_LENGTH] # 0

-----------------------------------------------------------------------------
(* Scenario: one FFTHandler<N>, a forward transform and its inverse *)

\* bound on the magnitude of the input samples
FftMaxSample == 2

\* the transform sizes the exact twiddles cover
FftSizes == {1, 2, 4}

FftSamples == (-FftMaxSample)..FftMaxSample

\* a constructed, not yet initialized handler and an input buffer of N samples
FftInit ==
  /\ \E n \in FftSizes :
       /\ fft = [N |-> n, twiddle_ |-> None, bit_reverse_ |-> None,
                 initialized_ |-> FALSE]
       /\ fft_input \in [0..(n - 1) -> FftSamples]
  /\ fft_freq = None
  /\ fft_output = None
  /\ fft_pc = "new"
  /\ IdleExcept("fft")

\* Init(); calling it again recomputes the tables
FftDoInit ==
  /\ fft_pc \in {"new", "ready"}
  /\ fft' = FFTHandler_Init(fft.N)
  /\ fft_pc' = "ready"
  /\ UNCHANGED <<fft_input, fft_freq, fft_output>>
  /\ UNCHANGED notFft

\* Forward(input, output_real, output_imag)
FftForward ==
  /\ fft_pc = "ready"
  /\ fft_freq' = Forward(fft, fft_input)
  /\ fft_pc' = "split"
  /\ UNCHANGED <<fft, fft_input, fft_output>>
  /\ UNCHANGED notFft

\* Forward(input, Complex* output)
FftForwardComplex ==
  /\ fft_pc = "ready"
  /\ fft_freq' = ForwardComplex(fft, fft_input)
  /\ fft_pc' = "complex"
  /\ UNCHANGED <<fft, fft_input, fft_output>>
  /\ UNCHANGED notFft

\* Inverse(input_real, input_imag, output) on what Forward wrote
FftInverse ==
  /\ fft_pc = "split"
  /\ fft_output' = Inverse(fft, fft_freq.real, fft_freq.imag)
  /\ fft_pc' = "split_done"
  /\ UNCHANGED <<fft, fft_input, fft_freq>>
  /\ UNCHANGED notFft

\* Inverse(const Complex* input, output) on what Forward wrote
FftInverseComplex ==
  /\ fft_pc = "complex"
  /\ fft_output' = InverseComplex(fft, fft_freq)
  /\ fft_pc' = "complex_done"
  /\ UNCHANGED <<fft, fft_input, fft_freq>>
  /\ UNCHANGED notFft

FftNext ==
  FftDoInit \/ FftForward \/ FftForwardComplex \/ FftInverse
    \/ FftInverseComplex

SpecFFT == FftInit /\ [][FftNext]_vars

\* the spectrum Forward wrote, as one Complex array whichever interface wrote it
FftSpectrum ==
  IF fft_pc \in {"complex", "complex_done"}
    THEN fft_freq
    ELSE [k \in 0..(fft.N - 1) |-> Complex(fft_freq.real[k], fft_freq.imag[k])]

\* bin k of the unnormalized DFT of x by its definition:
\* sum over n of x[n] * exp(-2*pi*i*k*n/N), summed from n = from upwards
RECURSIVE DFT(_, _, _, _)
DFT(x, size, k, from) ==
  IF from < size
    THEN CAdd(Complex(x[from] * CosQuarter(-((4 * k * from) \div size)),
                      x[from] * SinQuarter(-((4 * k * from) \div size))),
              DFT(x, size, k, from + 1))
    ELSE Complex(0, 0)

RECURSIVE SumArray(_, _, _)
SumArray(x, size, from) ==
  IF from < size THEN x[from] + SumArray(x, size, from + 1) ELSE 0

\* C2: Inverse(Forward(x)) reproduces x sample for sample, through both
\* interfaces
C2_RoundTrip ==
  fft_pc \in {"split_done", "complex_done"} =>
    \A i \in 0..(fft.N - 1) : fft_output[i] = fft_input[i]

\* C2 witness: a round trip of a size-4 input with distinct non-zero samples
\* has completed
C2_Witness ==
  /\ fft_pc = "complex_done"
  /\ fft.N = 4
  /\ fft_input[1] # 0
  /\ fft_input[2] # fft_input[1]
  /\ fft_input[3] # 0

\* C3: Forward computes the unnormalized DFT: every bin equals the defining
\* sum, bin 0 is the sum of the input samples, and the spectrum is
\* conjugate-symmetric
C3_ForwardIsDFT ==
  fft_pc \in {"split", "complex", "split_done", "complex_done"} =>
    /\ \A k \in 0..(fft.N - 1) : FftSpectrum[k] = DFT(fft_input, fft.N, k, 0)
    /\ FftSpectrum[0] = Complex(SumArray(fft_input, fft.N, 0), 0)
    /\ (\A n \in 0..(fft.N - 1) : fft_input[n] = 1) =>
         FftSpectrum = [k \in 0..(fft.N - 1) |->
                          IF k = 0 THEN Complex(fft.N, 0) ELSE Complex(0, 0)]
    /\ \A k \in 1..(fft.N - 1) :
         /\ FftSpectrum[fft.N - k].real = FftSpectrum[k].real
         /\ FftSpectrum[fft.N - k].imag = -FftSpectrum[k].imag

\* C3 witness: the size-4 transform of an input whose bin 1 has a non-zero
\* imaginary part (so the conjugate symmetry is not trivial)
C3_Witness ==
  /\ fft_pc = "split"
  /\ fft.N = 4
  /\ fft_freq.imag[1] # 0
  /\ fft_freq.real[1] # 0
  /\ fft_freq.real[0] # 0

-----------------------------------------------------------------------------
(* Scenario: one CrosstalkCanceller, initialized and then streamed *)

\* bound on the number of Process calls
CcMaxSteps == 4

\* the input samples and the HRIR sample values drawn
CcSamples == {0, 1}
CcHrirs == [0..(HRIR_LENGTH - 1) -> {0, 1}]

\* the constructor (speaker_angle_ = 10, regularization_ = 1e-5, which is 0
\* at the resolution of the model's numbers) and Init(48000)
CcInit ==
  /\ \E hrir_ll \in CcHrirs, hrir_lr \in CcHrirs :
       cc = CrosstalkCanceller_Init(HRIR_LENGTH, 48000, 10, 0, hrir_ll, hrir_lr)
  /\ cc_in = <<>>
  /\ cc_out = <<>>
  /\ cc_time = <<>>
  /\ IdleExcept("cc")

CcProcess ==
  /\ Len(cc_in) < CcMaxSteps
  /\ \E left_in \in CcSamples, right_in \in CcSamples :
       LET r == CrosstalkCanceller_Process(cc, left_in, right_in)
       IN /\ cc' = r.obj
          /\ cc_in' = Append(cc_in, <<left_in, right_in>>)
          /\ cc_out' = Append(cc_out, <<r.left_out, r.right_out>>)
          /\ cc_time' = cc_time \o r.block
  /\ UNCHANGED notCc

CcNext == CcProcess

SpecCrosstalk == CcInit /\ [][CcNext]_vars

\* what the split-and-carry overlap-add emits at position i of the block that
\* follows block k (0-based): the first half of block k's result plus the
\* second half of block k-1's result
SplitAndCarry(time, k, i) ==
  time[k + 1][i] + (IF k >= 1 THEN time[k][i + HRIR_LENGTH] ELSE 0)

\* C4 (as claimed): on both channels every emitted sample is the first half of
\* the previous block's result plus the carried second half of the block
\* before it
C4_SplitAndCarry ==
  \A n \in 1..Len(cc_out) :
    LET k == ((n - 1) \div HRIR_LENGTH) - 1
        i == (n - 1) % HRIR_LENGTH
    IN k >= 0 =>
         /\ cc_out[n][1] = SplitAndCarry([b \in 1..Len(cc_time) |->
                                            cc_time[b].left_time], k, i)
         /\ cc_out[n][2] = SplitAndCarry([b \in 1..Len(cc_time) |->
                                            cc_time[b].right_time], k, i)

-----------------------------------------------------------------------------
(* Scenario: one Robotization, configured and then streamed *)

\* bound on the number of Process calls
RbMaxSteps == 12

\* the input samples drawn (multiples of 4, so that the analysis window and
\* the transform are exact)
RbSamples == {0, 4}

\* the arguments SetHopSize and SetMix are called with
RbHopArgs == 0..(Robotization_N + 1)
RbMixArgs == {-1, 0, 1, 2}

\* the constructor and Init(48000)
RbInit ==
  /\ rb = Robotization_Init(Robotization_Construct(0), 48000)
  /\ rb_steps = 0
  /\ rb_recent = ZeroArray(Robotization_N)
  /\ rb_last = None
  /\ rb_grain = <<>>
  /\ rb_age = [j \in 0..(2 * Robotization_N - 1) |-> -1]
  /\ IdleExcept("rb")

\* SetHopSize before streaming starts
RbSetHopSize ==
  /\ rb_steps = 0
  /\ \E hop_size \in RbHopArgs : rb' = Robotization_SetHopSize(rb, hop_size)
  /\ UNCHANGED <<rb_steps, rb_recent, rb_last, rb_grain, rb_age>>
  /\ UNCHANGED notRb

\* SetMix, at any time
RbSetMix ==
  /\ \E mix \in RbMixArgs : rb' = Robotization_SetMix(rb, mix)
  /\ UNCHANGED <<rb_steps, rb_recent, rb_last, rb_grain, rb_age>>
  /\ UNCHANGED notRb

\* the ages after one Process call that read and zeroed slot `drained` and, if
\* it ran ProcessGrain, added a non-zero value to the slots `added`
NextAge(age, drained, added) ==
  [j \in DOMAIN age |->
     IF j = drained /\ j \notin added THEN -1
     ELSE IF j = drained \/ (age[j] = -1 /\ j \in added) THEN 0
     ELSE IF age[j] = -1 THEN -1
     ELSE Min(age[j] + 1, 2 * Robotization_N)]

RbProcess ==
  /\ rb_steps < RbMaxSteps
  /\ \E in \in RbSamples :
       LET res == Robotization_Process(rb, in)
       IN /\ rb' = res.obj
          /\ rb_recent' = [i \in 0..(Robotization_N - 1) |->
                             IF i < Robotization_N - 1 THEN rb_recent[i + 1]
                                                       ELSE in]
          /\ rb_last' = <<in, res.out, rb.mix_, rb.overlap_buffer_[rb.output_pos_]>>
          /\ rb_grain' = IF res.grain = <<>> THEN <<>>
                           ELSE <<Robotization_GrainInput(res.grain[1])>>
          /\ rb_age' = NextAge(rb_age, rb.output_pos_,
                               IF res.grain = <<>> THEN {}
                                 ELSE {j \in Robotization_GrainSlots(res.grain[1]) :
                                         res.obj.overlap_buffer_[j]
                                           # res.grain[1].overlap_buffer_[j]})
  /\ rb_steps' = rb_steps + 1
  /\ UNCHANGED notRb

RbNext == RbSetHopSize \/ RbSetMix \/ RbProcess

SpecRobot == RbInit /\ [][RbNext]_vars

\* C5 (as claimed): the samples every grain windows and transforms are the N
\* most recent input samples in arrival order (zeros before the stream start)
C5_GrainIsLastNSamples ==
  rb_grain # <<>> => rb_grain[1] = rb_recent

\* C6 (as claimed): every contribution a grain adds to the accumulator is
\* read and zeroed by Process before the grain 2N samples (2N/hop frames)
\* later reuses its slot: no contribution stays for 2N Process calls
C6_AccumulatorDrained ==
  \A j \in 0..(2 * Robotization_N - 1) : rb_age[j] < 2 * Robotization_N

-----------------------------------------------------------------------------
(* Scenario: two Whisperization instances, configured and then streamed with
   the same input *)

\* bound on the number of Process calls on each instance
WhMaxSteps == 5

\* the input samples drawn (multiples of 4, so that the analysis window and
\* the transform are exact)
WhSamples == {0, 4}

\* the seeds SetSeed is called with: the constructor's 12345 and the seeds
\* 2^30 and 2^31 above it.  Two of them differ in the two high bits only, and
\* so do the generator states that follow from them (1664525 = 1 mod 4): the
\* phases drawn differ by a whole number of quarter turns at every draw
WhSeeds == {UInt32(0, 12345), UInt32(16384, 12345), UInt32(32768, 12345)}

\* what the constructor may leave in the uninitialized members
WhGarbage == {0, 4}

WhHopArgs == 0..(Whisperization_N + 1)
WhMixArgs == {-1, 0, 1, 2}

\* the two constructors and Init(48000) on both
WhInit ==
  /\ \E g1 \in WhGarbage, g2 \in WhGarbage :
       /\ wh1 = Whisperization_Init(Whisperization_Construct(g1), 48000)
       /\ wh2 = Whisperization_Init(Whisperization_Construct(g2), 48000)
  /\ wh_seed = <<wh1.rand_seed_, wh2.rand_seed_>>
  /\ wh_steps = 0
  /\ wh_last = None
  /\ wh_grain = FALSE
  /\ wh_nonzero = FALSE
  /\ wh_differ = FALSE
  /\ IdleExcept("wh")

\* SetSeed on one of the instances, before streaming starts
WhSetSeed ==
  /\ wh_steps = 0
  /\ \E seed \in WhSeeds :
       \/ /\ wh1' = Whisperization_SetSeed(wh1, seed)
          /\ wh_seed' = [wh_seed EXCEPT ![1] = seed]
          /\ UNCHANGED wh2
       \/ /\ wh2' = Whisperization_SetSeed(wh2, seed)
          /\ wh_seed' = [wh_seed EXCEPT ![2] = seed]
          /\ UNCHANGED wh1
  /\ UNCHANGED <<wh_steps, wh_last, wh_grain, wh_nonzero, wh_differ>>
  /\ UNCHANGED notWh

\* the same SetHopSize on both instances, before streaming starts
WhSetHopSize ==
  /\ wh_steps = 0
  /\ \E hop_size \in WhHopArgs :
       /\ wh1' = Whisperization_SetHopSize(wh1, hop_size)
       /\ wh2' = Whisperization_SetHopSize(wh2, hop_size)
  /\ UNCHANGED <<wh_seed, wh_steps, wh_last, wh_grain, wh_nonzero, wh_differ>>
  /\ UNCHANGED notWh

\* the same SetMix on both instances, before streaming starts
WhSetMix ==
  /\ wh_steps = 0
  /\ \E mix \in WhMixArgs :
       /\ wh1' = Whisperization_SetMix(wh1, mix)
       /\ wh2' = Whisperization_SetMix(wh2, mix)
  /\ UNCHANGED <<wh_seed, wh_steps, wh_last, wh_grain, wh_nonzero, wh_differ>>
  /\ UNCHANGED notWh

\* Process with the same sample on both instances
WhProcess ==
  /\ wh_steps < WhMaxSteps
  /\ \E in \in WhSamples :
       LET res1 == Whisperization_Process(wh1, in)
           res2 == Whisperization_Process(wh2, in)
       IN /\ wh1' = res1.obj
          /\ wh2' = res2.obj
          /\ wh_last' = <<in, res1.out, res2.out>>
          /\ wh_nonzero' = (wh_nonzero \/ in # 0)
          /\ wh_differ' = (wh_differ \/ res1.out # res2.out)
  /\ wh_grain' = (wh_grain \/ wh1.input_pos_ + 1 >= wh1.hop_size_)
  /\ wh_steps' = wh_steps + 1
  /\ UNCHANGED wh_seed
  /\ UNCHANGED notWh

WhNext == WhSetSeed \/ WhSetHopSize \/ WhSetMix \/ WhProcess

SpecWhisper == WhInit /\ [][WhNext]_vars

\* C7: two instances constructed, initialized with the same sample rate,
\* given the same seed and the same hop and mix settings and fed the same
\* input produce the same output at every sample
C7_SameSeedSameOutput ==
  wh_seed[1] = wh_seed[2] =>
    /\ ~wh_differ
    /\ wh_last # None => wh_last[2] = wh_last[3]

\* C7 witness: with equal seeds, a grain's non-zero sample has just been
\* output fully wet by both instances
C7_Witness ==
  /\ wh_seed[1] = wh_seed[2]
  /\ wh_last # None
  /\ wh_grain
  /\ wh1.mix_ = 1
  /\ wh_last[2] # 0

-----------------------------------------------------------------------------
(* Scenario: one PhaseVocoder, its pitch ratio set again and again *)

\* bound on the number of SetPitchRatio calls
PvMaxCalls == 3

\* the ratios SetPitchRatio is called with, in quarters: -1.0, 0.0, 0.25, ...,
\* 2.25, 3.0, and NaN
PvRatioArgs == {Float(v) : v \in {-4, 12} \cup 0..9} \cup {NaN}

\* what static_cast<size_t> of a NaN may produce (FFT_SIZE + 1 stands for
\* every larger number)
PvCasts == 0..(PhaseVocoder_FFT_SIZE + 1)

\* what the constructor may leave in the uninitialized members
PvGarbage == {0, 3}

\* the constructor
PvInit ==
  /\ \E garbage \in PvGarbage : pv = PhaseVocoder_Construct(garbage)
  /\ pv_calls = 0
  /\ pv_last = <<>>
  /\ pv_steps = 0
  /\ pv_frames = 0
  /\ pv_out = <<>>
  /\ IdleExcept("pv")

\* Init(48000)
PvDoInit ==
  /\ pv' = PhaseVocoder_Init(pv, 48000)
  /\ pv_last' = <<>>
  /\ UNCHANGED <<pv_calls, pv_steps, pv_frames, pv_out>>
  /\ UNCHANGED notPv

PvSetPitchRatio ==
  /\ pv_calls < PvMaxCalls
  /\ \E ratio \in PvRatioArgs, cast \in PvCasts :
       /\ pv' = PhaseVocoder_SetPitchRatio(pv, ratio, cast)
       /\ pv_last' = <<ratio>>
  /\ pv_calls' = pv_calls + 1
  /\ UNCHANGED <<pv_steps, pv_frames, pv_out>>
  /\ UNCHANGED notPv

PvNext == PvDoInit \/ PvSetPitchRatio

SpecVocoder == PvInit /\ [][PvNext]_vars

\* r clamped to [0.5, 2.0]
ClampRatio(v) ==
  IF v < RatioOne \div 2 THEN RatioOne \div 2
  ELSE IF v > 2 * RatioOne THEN 2 * RatioOne ELSE v

RatioInRange(x) == ~x.nan /\ x.v >= RatioOne \div 2 /\ x.v <= 2 * RatioOne

-----------------------------------------------------------------------------
(* Scenario: Princarg applied to a phase, and then to its own result *)

\* the phases drawn are -PaMaxPhase..PaMaxPhase sixths of pi (five turns
\* either way)
PaMaxPhase == 30

PaInit ==
  /\ pa_phase \in (-PaMaxPhase)..PaMaxPhase
  /\ pa_out = <<>>
  /\ IdleExcept("pa")

\* Princarg(pa_phase)
PaApply ==
  /\ pa_out = <<>>
  /\ pa_out' = <<Princarg(pa_phase)>>
  /\ UNCHANGED pa_phase
  /\ UNCHANGED notPa

\* Princarg(Princarg(pa_phase))
PaApplyAgain ==
  /\ Len(pa_out) = 1
  /\ pa_out' = Append(pa_out, Princarg(pa_out[1]))
  /\ UNCHANGED pa_phase
  /\ UNCHANGED notPa

PaNext == PaApply \/ PaApplyAgain

SpecPrincarg == PaInit /\ [][PaNext]_vars

OddMultipleOfPi(p) == p % M_PI = 0 /\ (p \div M_PI) % 2 # 0

C13_Idempotent ==
  Len(pa_out) = 2 => pa_out[2] = pa_out[1]

\* C13 witness: Princarg was applied twice to a phase several turns away
\* from its principal value
C13_Witness ==
  /\ Len(pa_out) = 2
  /\ pa_phase > 2 * TWOPI
  /\ pa_out[1] # pa_phase
  /\ pa_out[2] = pa_out[1]

\* the inputs of channel ch in block k (1-based), as ProcessBlock finds them
\* in left_buffer_ / right_buffer_
CcBlockInput(k, ch) ==
  [i \in 0..(HRIR_LENGTH - 1) |-> cc_in[(k - 1) * HRIR_LENGTH + i + 1][ch]]

\* what Process emits at position i of the block that follows block k, from
\* the inputs of block k alone
CcEmitted(k, i) ==
  Once(CrosstalkCanceller_BlockResult(
         [cc EXCEPT !.left_buffer_  = CcBlockInput(k, 1),
                    !.right_buffer_ = CcBlockInput(k, 2)]),
    LAMBDA t :
      <<t.left_time[i] + t.left_time[i + HRIR_LENGTH],
        t.right_time[i] + t.right_time[i + HRIR_LENGTH]>>)

\* C14: ProcessBlock runs once per HRIR_LENGTH Process calls, the first
\* HRIR_LENGTH output pairs are zero, and the pair emitted at position i of
\* block k+1 is a function of the inputs of block k: one block of latency
\* (stated of the latest Process call, in every reachable state)
C14_OneBlockLatency ==
  /\ Len(cc_time) = Len(cc_in) \div HRIR_LENGTH
  /\ LET n == Len(cc_out)
     IN IF n = 0 THEN TRUE
        ELSE IF n <= HRIR_LENGTH
          THEN cc_out[n] = <<0, 0>>
          ELSE cc_out[n] = CcEmitted((n - 1) \div HRIR_LENGTH,
                                     (n - 1) % HRIR_LENGTH)

\* C14 witness: a non-zero sample in the first block came out, non-zero, in
\* the second block, and ProcessBlock has run twice
C14_Witness ==
  /\ Len(cc_out) = 2 * HRIR_LENGTH
  /\ Len(cc_time) = 2
  /\ \E n \in 1..HRIR_LENGTH : cc_in[n] # <<0, 0>>
  /\ \E n \in (HRIR_LENGTH + 1)..(2 * HRIR_LENGTH) : cc_out[n] # <<0, 0>>

-----------------------------------------------------------------------------
(* Scenario: two SpectralFilter instances driven by two threads, their
   Init / SetFIR / Process calls interleaved in every order *)

\* bound on the number of calls, on both instances together
DuoMaxCalls == 5

\* the calls a thread makes on its instance
DuoOps ==
  {[name |-> "Init", arg |-> 48000]}
    \cup {[name |-> "SetFIR", arg |-> coeffs] : coeffs \in [1..FIR_LENGTH -> {0, 1}]}
    \cup {[name |-> "Process", arg |-> in] : in \in {0, 1}}

\* one call on the instance f: the new object and <<what Process returned>>
DuoCall(f, op) ==
  CASE op.name = "Init"   -> [obj |-> SpectralFilter_Init(op.arg), out |-> <<>>]
    [] op.name = "SetFIR" -> [obj |-> SpectralFilter_SetFIR(f, op.arg, FIR_LENGTH),
                              out |-> <<>>]
    [] OTHER              -> LET r == SpectralFilter_Process(f, op.arg)
                             IN [obj |-> r.obj, out |-> <<r.out>>]

\* a call that also leaves its FFT work in the other instance, as it would
\* if the two instances shared one overlap buffer
DuoStep_SharedOverlap(objs, which, op) ==
  LET r == DuoCall(objs[which], op)
  IN [objs |-> [i \in 1..2 |->
                  IF i = which THEN r.obj
                  ELSE [objs[i] EXCEPT !.overlap_buffer_ = r.obj.overlap_buffer_]],
      out  |-> r.out]

\* a call on instance `which` of the pair: a member function reads and writes
\* the members of its own object only
DuoStep(objs, which, op) ==
  LET r == DuoCall(objs[which], op)
  IN [objs |-> [i \in 1..2 |-> IF i = which THEN r.obj ELSE objs[i]],
      out  |-> r.out]

\* the two constructors and Init on both
DuoInit ==
  /\ duo = <<SpectralFilter_Init(48000), SpectralFilter_Init(48000)>>
  /\ duo_alone = duo
  /\ duo_last = <<>>
  /\ duo_calls = 0
  /\ IdleExcept("duo")

\* the next call of either thread
DuoThreadCall ==
  /\ duo_calls < DuoMaxCalls
  /\ \E which \in 1..2, op \in DuoOps :
       LET r     == DuoStep(duo, which, op)
           alone == DuoCall(duo_alone[which], op)
       IN /\ duo' = r.objs
          /\ duo_alone' = [duo_alone EXCEPT ![which] = alone.obj]
          /\ duo_last' = <<which, op.name, r.out, alone.out>>
  /\ duo_calls' = duo_calls + 1
  /\ UNCHANGED notDuo

DuoNext == DuoThreadCall

SpecTwoFilters == DuoInit /\ [][DuoNext]_vars

-----------------------------------------------------------------------------
(* Scenario: one NoiseGate, configured and then fed a stream of samples *)

\* bound on the number of Process calls
NgMaxSteps == 6

\* the samples passed to Process: 0, +-0.005, +-1.0
NgSamples == {0, 5, -5, AmpOne, -AmpOne}

\* the arguments of the setters: thresholds in dB, times in milliseconds,
\* alpha in hundredths
NgThresholds == {-40, -20}
NgTimes == {1, 2}
NgAlphas == {0, 50, 99}

\* the constructor and Init(1000)
NgInit ==
  /\ ng = NoiseGate_Init(1000)
  /\ ng_steps = 0
  /\ ng_quiet = 0
  /\ ng_last = None
  /\ IdleExcept("ng")

NgSetThreshold ==
  /\ ng_steps = 0
  /\ \E db \in NgThresholds : ng' = NoiseGate_SetThreshold(ng, db)
  /\ UNCHANGED <<ng_steps, ng_quiet, ng_last>>
  /\ UNCHANGED notNg

NgSetHoldTime ==
  /\ ng_steps = 0
  /\ \E t \in NgTimes : ng' = NoiseGate_SetHoldTime(ng, t)
  /\ UNCHANGED <<ng_steps, ng_quiet, ng_last>>
  /\ UNCHANGED notNg

NgSetAttackTime ==
  /\ ng_steps = 0
  /\ \E t \in NgTimes : ng' = NoiseGate_SetAttackTime(ng, t)
  /\ UNCHANGED <<ng_steps, ng_quiet, ng_last>>
  /\ UNCHANGED notNg

NgSetReleaseTime ==
  /\ ng_steps = 0
  /\ \E t \in NgTimes : ng' = NoiseGate_SetReleaseTime(ng, t)
  /\ UNCHANGED <<ng_steps, ng_quiet, ng_last>>
  /\ UNCHANGED notNg

NgSetAlpha ==
  /\ ng_steps = 0
  /\ \E a \in NgAlphas : ng' = NoiseGate_SetAlpha(ng, a)
  /\ UNCHANGED <<ng_steps, ng_quiet, ng_last>>
  /\ UNCHANGED notNg

NgProcess ==
  /\ ng_steps < NgMaxSteps
  /\ \E in \in NgSamples :
       LET r == NoiseGate_Process(ng, in)
       IN /\ ng' = r.obj
          /\ ng_last' = <<in, r.out>>
          /\ ng_quiet' = IF r.obj.envelope_ <= r.obj.threshold_linear_
                           THEN ng_quiet + 1 ELSE 0
  /\ ng_steps' = ng_steps + 1
  /\ UNCHANGED notNg

NgNext ==
  \/ NgSetThreshold
  \/ NgSetHoldTime
  \/ NgSetAttackTime
  \/ NgSetReleaseTime
  \/ NgSetAlpha
  \/ NgProcess

SpecGate == NgInit /\ [][NgNext]_vars

\* C16 (as claimed): once the detected envelope has stayed at or below the
\* threshold for more than hold_samples_ + release_samples_ Process calls,
\* the gate gain is 0 and the output is silenced
C16_ClosesOnSustainedQuiet ==
  ng_quiet > ng.hold_samples_ + ng.release_samples_ =>
    /\ ng.gate_gain_ = 0
    /\ ng_last[2] = 0

\* what Process does instead: neither counter ever leaves 0 (each branch that
\* increments one requires it to be positive already), so the gain stays at
\* 1.0 and every sample is returned unchanged
C16_GateNeverMoves ==
  /\ ng.low_threshold_count_ = 0
  /\ ng.upper_threshold_count_ = 0
  /\ ng.gate_gain_ = AmpOne
  /\ ng_last # None => ng_last[2] = ng_last[1]

\* a quiet non-zero sample passed through after the hold and release times
C16_QuietPassed ==
  /\ ng_quiet > ng.hold_samples_ + ng.release_samples_
  /\ ng_last # None
  /\ ng_last[1] # 0
  /\ ng_last[2] = ng_last[1]

-----------------------------------------------------------------------------
(* Scenario: one CircularBuffer, initialized, written and read *)

\* bound on the number of Init and Write calls
CbMaxCalls == 7

\* the samples written
CbSamples == {1, 2}

\* the sizes Init is called with (MaxSize + 1 is clamped; with size 0 Write
\* would divide by zero)
CbSizes == 1..(CircularBuffer_MaxSize + 1)

\* the delays Read and Tap are called with
CbDelays == 0..(CircularBuffer_MaxSize + 1)

\* what the constructor may find in the storage of buffer_
CbGarbage == {0, 9}

\* the constructor
CbInit ==
  /\ \E garbage \in CbGarbage : cb = CircularBuffer_Construct(garbage)
  /\ cb_inited = FALSE
  /\ cb_recent = ZeroArray(CircularBuffer_MaxSize)
  /\ cb_writes = 0
  /\ cb_calls = 0
  /\ cb_last = None
  /\ IdleExcept("cb")

\* Init(size)
CbDoInit ==
  /\ cb_calls < CbMaxCalls
  /\ \E size \in CbSizes : cb' = CircularBuffer_Init(cb, size)
  /\ cb_inited' = TRUE
  /\ cb_recent' = ZeroArray(CircularBuffer_MaxSize)
  /\ cb_writes' = 0
  /\ cb_calls' = cb_calls + 1
  /\ cb_last' = None
  /\ UNCHANGED notCb

\* Write(sample)
CbWrite ==
  /\ cb_calls < CbMaxCalls
  /\ \E sample \in CbSamples :
       /\ cb' = CircularBuffer_Write(cb, sample)
       /\ cb_recent' = [d \in 0..(CircularBuffer_MaxSize - 1) |->
                          IF d = 0 THEN sample ELSE cb_recent[d - 1]]
  /\ cb_writes' = cb_writes + 1
  /\ cb_calls' = cb_calls + 1
  /\ cb_last' = None
  /\ UNCHANGED cb_inited
  /\ UNCHANGED notCb

\* Read(delay_samples) and Tap(delay_samples): const, the object is not
\* changed
CbRead ==
  /\ \E delay_samples \in CbDelays :
       cb_last' = <<delay_samples, CircularBuffer_Read(cb, delay_samples),
                    CircularBuffer_Tap(cb, delay_samples)>>
  /\ UNCHANGED <<cb, cb_inited, cb_recent, cb_writes, cb_calls>>
  /\ UNCHANGED notCb

CbNext == CbDoInit \/ CbWrite \/ CbRead

SpecBuffer == CbInit /\ [][CbNext]_vars

\* the sample written d writes ago, 0 if fewer than d samples were written
\* since Init
CbWrittenAgo(d) == IF d <= cb_writes THEN cb_recent[d - 1] ELSE 0

-----------------------------------------------------------------------------
(* Scenario: one PhaseVocoder, initialized and then fed a stream of samples,
   its pitch ratio changed along the way *)

\* bound on the number of Process calls
PvsMaxSteps == 10

\* bound on the number of SetPitchRatio calls
PvsMaxCalls == 2

\* the ratios SetPitchRatio is called with, in quarters: 0.25 (clamped to
\* 0.5), 0.5, 0.75, 1.0, 1.25, 2.0
PvsRatioArgs == {Float(v) : v \in {1, 2, 3, 4, 5, 8}}

\* the n-th sample passed to Process: its value does not enter the sums
\* of the model, it is stored in input_buffer_ as the number n
PvsSample(n) == n

\* the frames the terms of accumulator slot j come from
PvSlotFrames(j) ==
  {pv.output_buffer_[j][t][2] : t \in 1..Len(pv.output_buffer_[j])}

\* the number of accumulator slots of p that hold a term of the given frame
PvAdded(p, frame) ==
  Cardinality({j \in 0..(PhaseVocoder_FFT_SIZE - 1) :
                 \E t \in 1..Len(p.output_buffer_[j]) :
                   p.output_buffer_[j][t][2] = frame})

\* the constructor and Init(48000)
PvsInit ==
  /\ \E garbage \in PvGarbage :
       pv = PhaseVocoder_Init(PhaseVocoder_Construct(garbage), 48000)
  /\ pv_calls = 0
  /\ pv_last = <<>>
  /\ pv_steps = 0
  /\ pv_frames = 0
  /\ pv_out = <<>>
  /\ IdleExcept("pv")

PvsSetPitchRatio ==
  /\ pv_calls < PvsMaxCalls
  /\ \E ratio \in PvsRatioArgs :
       /\ pv' = PhaseVocoder_SetPitchRatio(pv, ratio, 0)
       /\ pv_last' = <<ratio>>
  /\ pv_calls' = pv_calls + 1
  /\ UNCHANGED <<pv_steps, pv_frames, pv_out>>
  /\ UNCHANGED notPv

PvsProcess ==
  /\ pv_steps < PvsMaxSteps
  /\ LET r == PhaseVocoder_Process(pv, PvsSample(pv_steps + 1), pv_frames + 1)
     IN /\ pv' = r.obj
        /\ pv_frames' = IF r.framed THEN pv_frames + 1 ELSE pv_frames
        /\ pv_out' = <<[out    |-> r.out,
                        framed |-> r.framed,
                        ratio  |-> pv.pitch_ratio_,
                        added  |-> IF r.framed
                                     THEN PvAdded(r.obj, pv_frames + 1)
                                     ELSE 0]>>
  /\ pv_steps' = pv_steps + 1
  /\ UNCHANGED <<pv_calls, pv_last>>
  /\ UNCHANGED notPv

PvsNext == PvsSetPitchRatio \/ PvsProcess

SpecVocoderStream == PvsInit /\ [][PvsNext]_vars

\* C18: whenever ProcessFrame has overlap-added a grain sample into an
\* accumulator slot, that slot holds no contribution of a frame FFT_SIZE /
\* HOP_SIZE or more hops earlier: those were read and zeroed by Process
\* before
C18_DrainedBeforeReuse ==
  \A j \in 0..(PhaseVocoder_FFT_SIZE - 1) :
    pv_frames \in PvSlotFrames(j) =>
      \A k \in PvSlotFrames(j) :
        k > pv_frames - PhaseVocoder_FFT_SIZE \div PhaseVocoder_HOP_SIZE

\* C18 witness: the fifth frame has been overlap-added onto the region of
\* the first, and one of its slots still holds a contribution that is three
\* hops old
C18_Witness ==
  /\ pv_frames = 1 + PhaseVocoder_FFT_SIZE \div PhaseVocoder_HOP_SIZE
  /\ \E j \in 0..(PhaseVocoder_FFT_SIZE - 1) :
       {pv_frames, pv_frames - 3} \subseteq PvSlotFrames(j)

\* C19: on a freshly constructed and initialized instance ProcessFrame runs
\* at the end of every HOP_SIZE-th Process call and of no other, so after n
\* calls floor(n / HOP_SIZE) frames have run; each frame resets grain_pos_
\* to 0
C19_FrameEveryHop ==
  /\ pv_frames = pv_steps \div PhaseVocoder_HOP_SIZE
  /\ pv.frame_counter_ = pv_steps % PhaseVocoder_HOP_SIZE
  /\ pv_out # <<>> =>
       /\ pv_out[1].framed <=> (pv_steps % PhaseVocoder_HOP_SIZE = 0)
       /\ pv_out[1].framed => pv.grain_pos_ = 0

\* C19 witness: two frames have run and the call after the second ran none
\* and played the first sample of the grain
C19_Witness ==
  /\ pv_steps = 2 * PhaseVocoder_HOP_SIZE + 1
  /\ pv_frames = 2
  /\ pv_out # <<>>
  /\ ~pv_out[1].framed
  /\ pv.grain_pos_ = 1

\* N / r, truncated
PvGrainQuotient(ratio) == (PhaseVocoder_FFT_SIZE * RatioOne) \div ratio.v

\* C20 (as claimed): for every pitch ratio r in [0.5, 2.0], r > 1 and r < 1,
\* grain_length_ is N / r truncated, and that many grain samples are
\* overlap-added by a frame
C20_GrainLengthIsNOverR ==
  /\ pv.grain_length_ = PvGrainQuotient(pv.pitch_ratio_)
  /\ (pv_out # <<>> /\ pv_out[1].framed) =>
       pv_out[1].added = PvGrainQuotient(pv_out[1].ratio)

\* C20 (amended): grain_length_ is N / r truncated for r >= 1 and N for
\* r < 1 (the quotient is clamped to FFT_SIZE, the grain is never resampled
\* up), and that many grain samples are overlap-added by a frame
C20_GrainLengthClamped ==
  /\ pv.grain_length_ =
       Min(PhaseVocoder_FFT_SIZE, PvGrainQuotient(pv.pitch_ratio_))
  /\ (pv_out # <<>> /\ pv_out[1].framed) =>
       pv_out[1].added =
         Min(PhaseVocoder_FFT_SIZE, PvGrainQuotient(pv_out[1].ratio))

\* C20 witness: at ratio 1.25 a frame has overlap-added a grain of 6 samples
\* (8 / 1.25 = 6.4)
C20_Witness ==
  /\ pv.pitch_ratio_ = Float(5)
  /\ pv_out # <<>>
  /\ pv_out[1].framed
  /\ pv_out[1].ratio = Float(5)
  /\ pv_out[1].added = 6

-----------------------------------------------------------------------------
(* Scenario: CrosstalkCanceller instantiated with one of the HRIR_LENGTH
   arguments in use, initialized and then streamed *)

\* the template arguments: the default (256, half of FFT_SIZE) and the one
\* of the tests (128, a quarter of FFT_SIZE)
CcsLengths == {HRIR_LENGTH, HRIR_LENGTH \div 2}

\* the constructor and Init(48000) of CrosstalkCanceller<hrir_length>
CcsInit ==
  /\ \E hrir_length \in CcsLengths :
       \E hrir_ll \in [0..(hrir_length - 1) -> {0, 1}],
          hrir_lr \in [0..(hrir_length - 1) -> {0, 1}] :
         cc = CrosstalkCanceller_Init(hrir_length, 48000, 10, 0, hrir_ll, hrir_lr)
  /\ cc_in = <<>>
  /\ cc_out = <<>>
  /\ cc_time = <<>>
  /\ IdleExcept("cc")

CcsProcess ==
  /\ Len(cc_in) < CcMaxSteps
  /\ \E left_in \in CcSamples, right_in \in CcSamples :
       LET r == CrosstalkCanceller_Process(cc, left_in, right_in)
       IN /\ cc' = r.obj
          /\ cc_in' = Append(cc_in, <<left_in, right_in>>)
          /\ cc_out' = Append(cc_out, <<r.left_out, r.right_out>>)
          /\ cc_time' = cc_time \o r.block
  /\ UNCHANGED notCc

CcsNext == CcsProcess

SpecCrosstalkSizes == CcsInit /\ [][CcsNext]_vars

\* the indices of left_time / right_time that ProcessBlock's overlap-add
\* reads: i and i + HRIR_LENGTH for i < HRIR_LENGTH
CcsCovered ==
  {i : i \in 0..(cc.HRIR_LENGTH - 1)}
    \cup {i + cc.HRIR_LENGTH : i \in 0..(cc.HRIR_LENGTH - 1)}

\* C21 (as claimed): for every HRIR_LENGTH the class is instantiated with,
\* FFT_SIZE is 2 * HRIR_LENGTH, and the two HRIR_LENGTH-sample halves split
\* by the overlap-add cover the whole inverse-transform result
C21_TransformIsTwiceTheBlock ==
  /\ CrosstalkCanceller_FFT_SIZE = 2 * cc.HRIR_LENGTH
  /\ CcsCovered = 0..(CrosstalkCanceller_FFT_SIZE - 1)

\* what holds instead: FFT_SIZE is the same fixed number for every
\* HRIR_LENGTH, at least 2 * HRIR_LENGTH for the arguments in use
C21_TransformIsFixed ==
  /\ CrosstalkCanceller_FFT_SIZE >= 2 * cc.HRIR_LENGTH
  /\ cc.fft_.N = CrosstalkCanceller_FFT_SIZE
  /\ CcsCovered \subseteq 0..(CrosstalkCanceller_FFT_SIZE - 1)

-----------------------------------------------------------------------------
(* Scenario: one SimpleHRIR generator, initialized and asked for impulse
   responses *)

\* the MaxLength template argument of the modelled generator
HrMaxLength == 4

\* bound on the number of Init and Generate calls
HrMaxCalls == 3

\* the sample rates Init is called with: 3 ms are 3 samples at 1000 Hz and
\* 144, clamped to MaxLength, at 48000 Hz
HrRates == {1000, 48000}

\* the azimuths Generate is called with, in degrees
HrAngles == {0, 5, -5, 20, -20, 30, -30, 60, -60, 90, -90, 120, -120}

\* what the uninitialized coefficients and the caller's array may hold
HrGarbage == {0, 7}

\* the constructor
HrInit ==
  /\ \E garbage \in HrGarbage : hr = SimpleHRIR_Construct(HrMaxLength, garbage)
  /\ hr_last = <<>>
  /\ hr_calls = 0
  /\ IdleExcept("hr")

\* Init(sample_rate)
HrDoInit ==
  /\ hr_calls < HrMaxCalls
  /\ \E sample_rate \in HrRates : hr' = SimpleHRIR_Init(hr, sample_rate)
  /\ hr_last' = <<>>
  /\ hr_calls' = hr_calls + 1
  /\ UNCHANGED notHr

\* Generate(theta, output) on an array of MaxLength samples of the caller
HrGenerate ==
  /\ hr_calls < HrMaxCalls
  /\ \E theta \in HrAngles, garbage \in HrGarbage :
       LET r == SimpleHRIR_Generate(hr, theta,
                                    [j \in 0..(HrMaxLength - 1) |-> garbage])
       IN /\ hr' = r.obj
          /\ hr_last' = <<[theta |-> theta, output |-> r.output]>>
  /\ hr_calls' = hr_calls + 1
  /\ UNCHANGED notHr

HrNext == HrDoInit \/ HrGenerate

SpecHRIR == HrInit /\ [][HrNext]_vars

\* filtered sample i of the last Generate call
HrFiltered(i) ==
  SimpleHRIR_Response(SimpleHRIR_Coefficients(hr, hr_last[1].theta), i)

-----------------------------------------------------------------------------
(* Scenario: one CrosstalkCanceller with its HRIR generator: initialized,
   then retuned and streamed in any order *)

\* bound on the number of calls after Init
CcgMaxCalls == 3

\* Init's sample rates: 48000 (the 3 ms response fills the HRIR_LENGTH
\* samples of the model) and 500 (it is shorter than HRIR_LENGTH, as 144 is
\* shorter than 256 at 48 kHz in the source)
CcgRates == {48000, 500}

\* what the local arrays hrir_ll and hrir_lr hold when ComputeInverseFilters
\* is entered (floats: 0.0f in every entry, or 1.0f in every entry)
CcgStacks == {[i \in 0..(HRIR_LENGTH - 1) |-> v] : v \in {0, AmpOne}}

\* the arguments of SetSpeakerAngle and of SetRegularization
CcgAngles == {10, 40}
CcgBetas == {0, 1}

CcgInit ==
  /\ \E sample_rate \in CcgRates, stack_ll \in CcgStacks, stack_lr \in CcgStacks :
       ccg = CrosstalkCanceller_InitGenerated(HRIR_LENGTH, sample_rate, 0,
                                              stack_ll, stack_lr)
  /\ ccg_ops = <<>>
  /\ IdleExcept("ccg")

CcgSetSpeakerAngle ==
  /\ Len(ccg_ops) < CcgMaxCalls
  /\ \E angle \in CcgAngles, stack_ll \in CcgStacks, stack_lr \in CcgStacks :
       /\ ccg' = CrosstalkCanceller_SetSpeakerAngle(ccg, angle, stack_ll, stack_lr)
       /\ ccg_ops' = Append(ccg_ops, [op |-> "SetSpeakerAngle",
                                      changed |-> angle # ccg.speaker_angle_])
  /\ UNCHANGED notCcg

CcgSetRegularization ==
  /\ Len(ccg_ops) < CcgMaxCalls
  /\ \E beta \in CcgBetas, stack_ll \in CcgStacks, stack_lr \in CcgStacks :
       /\ ccg' = CrosstalkCanceller_SetRegularization(ccg, beta, stack_ll, stack_lr)
       /\ ccg_ops' = Append(ccg_ops, [op |-> "SetRegularization",
                                      changed |-> beta # ccg.regularization_])
  /\ UNCHANGED notCcg

CcgProcess ==
  /\ Len(ccg_ops) < CcgMaxCalls
  /\ \E left_in \in CcSamples, right_in \in CcSamples :
       ccg' = CrosstalkCanceller_Process(ccg, left_in, right_in).obj
  /\ ccg_ops' = Append(ccg_ops, [op |-> "Process", changed |-> FALSE])
  /\ UNCHANGED notCcg

CcgNext == CcgSetSpeakerAngle \/ CcgSetRegularization \/ CcgProcess

SpecCrosstalkDesign == CcgInit /\ [][CcgNext]_vars

\* the matrices H that ComputeInverseFilters can produce from the instance's
\* current sample rate, speaker angle and regularization
CcgDesigns ==
  {CrosstalkCanceller_H(CrosstalkCanceller_DesignFilters(ccg, stack_ll, stack_lr)) :
     stack_ll \in CcgStacks, stack_lr \in CcgStacks}

\* C22: H is always a design from the current speaker angle and
\* regularization (a setter that changes its parameter recomputes all of H
\* from the new value), and H changes only in a SetSpeakerAngle or
\* SetRegularization call that changes the parameter: Process / ProcessBlock
\* leave it unchanged
C22_HChangesOnlyInSetters ==
  /\ [](CrosstalkCanceller_H(ccg) \in CcgDesigns)
  /\ [][CrosstalkCanceller_H(ccg') # CrosstalkCanceller_H(ccg)
          => /\ ccg_ops'[Len(ccg_ops')].op \in {"SetSpeakerAngle", "SetRegularization"}
             /\ ccg_ops'[Len(ccg_ops')].changed]_vars

\* a setter changed its parameter and H with it, and a block has been
\* processed with the new H since
C22_Witness ==
  /\ Len(ccg_ops) = CcgMaxCalls
  /\ ccg_ops[1].op = "SetSpeakerAngle" /\ ccg_ops[1].changed
  /\ ccg_ops[2].op = "Process" /\ ccg_ops[3].op = "Process"
  /\ ccg.input_pos_ = 0
  /\ \E k \in 0..(CrosstalkCanceller_FFT_SIZE - 1) : ccg.H_12_real_[k] # 0

\* C26 (as claimed): H is a function only of the sample rate, the speaker
\* angle and the regularization: whatever the local arrays held when
\* ComputeInverseFilters was entered, the design is the H of the instance
C26_DesignIsDeterministic ==
  \A d \in CcgDesigns : d = CrosstalkCanceller_H(ccg)

\* what holds instead: the design is determined when the generator's
\* length_ covers the HRIR_LENGTH samples that are transformed, and the
\* samples from length_ on are the ones the local arrays held
C26_DeterministicWhenCovered ==
  /\ ccg.hrir_gen_.length_ >= ccg.HRIR_LENGTH => C26_DesignIsDeterministic
  /\ \A stack_ll \in CcgStacks, stack_lr \in CcgStacks :
       LET g == CrosstalkCanceller_GenerateHRIRs(ccg.hrir_gen_, ccg.speaker_angle_,
                                                 stack_ll, stack_lr)
       IN \A i \in 0..(ccg.HRIR_LENGTH - 1) :
            i >= ccg.hrir_gen_.length_ =>
              /\ g.hrir_ll[i] = HrirSample(stack_ll[i])
              /\ g.hrir_lr[i] = HrirSample(stack_lr[i])

\* an instance whose generator writes fewer samples than are transformed,
\* with a matrix H that another content of the local arrays would not give
C26_StackReachesH ==
  /\ ccg.hrir_gen_.length_ < ccg.HRIR_LENGTH
  /\ \E d \in CcgDesigns : d # CrosstalkCanceller_H(ccg)

-----------------------------------------------------------------------------
(* SpecVocoderStream: what a Process call emits of each grain sample *)

\* how many times the term x occurs in the sum out
PvOccurrences(out, x) == Cardinality({t \in 1..Len(out) : out[t] = x})

\* C25 (as claimed): no grain sample occurs more than once in a returned
\* sample: it is not emitted both by the direct grain playback and by the
\* accumulator slot it was overlap-added into
C25_EmittedOnce ==
  pv_out # <<>> =>
    \A t \in 1..Len(pv_out[1].out) :
      PvOccurrences(pv_out[1].out, pv_out[1].out[t]) = 1

\* what holds instead: the grain samples 0 .. HOP_SIZE - 1 of every frame
\* are returned twice in the same call, by the grain playback and by the
\* accumulator slot, and the samples from HOP_SIZE on once, by the slot
C25_HeadEmittedTwice ==
  pv_out # <<>> =>
    \A t \in 1..Len(pv_out[1].out) :
      LET x == pv_out[1].out[t]
      IN PvOccurrences(pv_out[1].out, x) =
           IF x[3] < PhaseVocoder_HOP_SIZE THEN 2 ELSE 1

\* the call after the first frame has returned grain sample 0 of that frame
\* twice
C25_DoubledSample ==
  /\ pv_steps = PhaseVocoder_HOP_SIZE + 1
  /\ pv_out # <<>>
  /\ PvOccurrences(pv_out[1].out, <<"grain", 1, 0>>) = 2
-----------------------------------------------------------------------------
(* Scenario: one PhaseVocoder that is initialized, used, and initialized
   again *)

\* bound on the number of Process calls since the last Init
PvrMaxSteps == 5

\* bound on the number of Init calls after the first
PvrMaxCalls == 2

\* the ratios SetPitchRatio is called with: 1.0, 2.0
PvrRatioArgs == {Float(RatioOne), Float(2 * RatioOne)}

\* a freshly constructed and initialized instance
PvrFresh == PhaseVocoder_Init(PhaseVocoder_Construct(0), 48000)

\* the constructor and Init(48000)
PvrInit ==
  /\ \E garbage \in PvGarbage :
       pv = PhaseVocoder_Init(PhaseVocoder_Construct(garbage), 48000)
  /\ pv_calls = 0
  /\ pv_last = <<>>
  /\ pv_steps = 0
  /\ pv_frames = 0
  /\ pv_out = <<>>
  /\ IdleExcept("pv")

\* Init(48000) on the used instance; pv_steps and pv_frames count from the
\* last Init
PvrReInit ==
  /\ pv_calls < PvrMaxCalls
  /\ pv' = PhaseVocoder_Init(pv, 48000)
  /\ pv_calls' = pv_calls + 1
  /\ pv_last' = <<[op |-> "Init", frame_counter_ |-> pv.frame_counter_]>>
  /\ pv_steps' = 0
  /\ pv_frames' = 0
  /\ pv_out' = <<>>
  /\ UNCHANGED notPv

PvrSetPitchRatio ==
  /\ \E ratio \in PvrRatioArgs :
       pv' = PhaseVocoder_SetPitchRatio(pv, ratio, 0)
  /\ pv_last' = <<>>
  /\ UNCHANGED <<pv_calls, pv_steps, pv_frames, pv_out>>
  /\ UNCHANGED notPv

PvrProcess ==
  /\ pv_steps < PvrMaxSteps
  /\ LET r == PhaseVocoder_Process(pv, PvsSample(pv_steps + 1), pv_frames + 1)
     IN /\ pv' = r.obj
        /\ pv_frames' = IF r.framed THEN pv_frames + 1 ELSE pv_frames
        /\ pv_out' = <<[out |-> r.out, framed |-> r.framed]>>
  /\ pv_steps' = pv_steps + 1
  /\ pv_last' = <<>>
  /\ UNCHANGED pv_calls
  /\ UNCHANGED notPv

PvrNext == PvrReInit \/ PvrSetPitchRatio \/ PvrProcess

SpecVocoderReinit == PvrInit /\ [][PvrNext]_vars

\* C27 (as claimed): Init leaves the instance in the state of a fresh one,
\* and after n Process calls since the last Init floor(n / HOP_SIZE) frames
\* have run: the first frame is analysed after exactly HOP_SIZE calls
C27_InitIsFullReset ==
  /\ pv_last # <<>> => pv = PvrFresh
  /\ pv_frames = pv_steps \div PhaseVocoder_HOP_SIZE

\* what holds instead: Init restores every member but frame_counter_,
\* which keeps the value it had, so the first frame after Init runs
\* HOP_SIZE - frame_counter_ calls after it
C27_ResetButFrameCounter ==
  /\ pv_last # <<>> =>
       /\ [pv EXCEPT !.frame_counter_ = 0] = PvrFresh
       /\ pv.frame_counter_ = pv_last[1].frame_counter_
  /\ pv_calls = 0 => pv_frames = pv_steps \div PhaseVocoder_HOP_SIZE

\* Init was called one sample before a frame was due, and the first
\* Process call after it has run a frame
C27_EarlyFrame ==
  /\ pv_calls > 0
  /\ pv_steps = 1
  /\ pv_frames = 1
  /\ pv_out # <<>> /\ pv_out[1].framed
-----------------------------------------------------------------------------
(* Scenario: a Whisperization instance that has processed grains and is
   initialized again, next to a freshly constructed and initialized one *)

\* bound on the number of Process calls on the first instance
WhrMaxSteps == 4

\* the hop sizes both instances are set to before streaming
WhrHopArgs == {1, 2}

\* the two constructors and Init(48000) on both
WhrInit ==
  /\ \E g1 \in WhGarbage, g2 \in WhGarbage :
       /\ wh1 = Whisperization_Init(Whisperization_Construct(g1), 48000)
       /\ wh2 = Whisperization_Init(Whisperization_Construct(g2), 48000)
  /\ wh_seed = None
  /\ wh_steps = 0
  /\ wh_last = None
  /\ wh_grain = FALSE
  /\ wh_nonzero = FALSE
  /\ wh_differ = FALSE
  /\ IdleExcept("wh")

\* the same SetHopSize on both instances, before any Process call
WhrSetHopSize ==
  /\ wh_steps = 0
  /\ wh_seed = None
  /\ \E hop_size \in WhrHopArgs :
       /\ wh1' = Whisperization_SetHopSize(wh1, hop_size)
       /\ wh2' = Whisperization_SetHopSize(wh2, hop_size)
  /\ UNCHANGED <<wh_seed, wh_steps, wh_last, wh_grain, wh_nonzero, wh_differ>>
  /\ UNCHANGED notWh

\* Process on the first instance only, before its second Init
WhrWarmUp ==
  /\ wh_seed = None
  /\ wh_steps < WhrMaxSteps - 1
  /\ \E in \in WhSamples :
       LET res1 == Whisperization_Process(wh1, in)
       IN /\ wh1' = res1.obj
          /\ wh_grain' = (wh_grain \/ res1.grain)
  /\ wh_steps' = wh_steps + 1
  /\ UNCHANGED <<wh2, wh_seed, wh_last, wh_nonzero, wh_differ>>
  /\ UNCHANGED notWh

\* Init(48000) on the first instance; wh_seed keeps the generator states
\* before the call
WhrReInit ==
  /\ wh_seed = None
  /\ wh1' = Whisperization_Init(wh1, 48000)
  /\ wh_seed' = <<wh1.rand_seed_, wh2.rand_seed_>>
  /\ UNCHANGED <<wh2, wh_steps, wh_last, wh_grain, wh_nonzero, wh_differ>>
  /\ UNCHANGED notWh

\* Process with the same sample on both instances, after the second Init
WhrProcess ==
  /\ wh_seed # None
  /\ wh_steps < WhrMaxSteps
  /\ \E in \in WhSamples :
       LET res1 == Whisperization_Process(wh1, in)
           res2 == Whisperization_Process(wh2, in)
       IN /\ wh1' = res1.obj
          /\ wh2' = res2.obj
          /\ wh_last' = <<in, res1.out, res2.out>>
          /\ wh_nonzero' = (wh_nonzero \/ in # 0)
          /\ wh_differ' = (wh_differ \/ res1.out # res2.out)
  /\ wh_steps' = wh_steps + 1
  /\ UNCHANGED <<wh_seed, wh_grain>>
  /\ UNCHANGED notWh

WhrNext == WhrSetHopSize \/ WhrWarmUp \/ WhrReInit \/ WhrProcess

SpecWhisperReinit == WhrInit /\ [][WhrNext]_vars

\* C28 (as claimed): after Init on the used instance its generator is in
\* the state of the fresh instance's, and fed the same input the two
\* instances return the same samples
C28_InitRestoresGenerator ==
  wh_seed # None =>
    /\ wh_last = None => wh1.rand_seed_ = wh2.rand_seed_
    /\ ~wh_differ

\* what holds instead: Init restores the buffers and positions and leaves
\* rand_seed_ as it was, so the outputs differ only if a grain had run
\* before Init and some input sample was non-zero
C28_InitKeepsGenerator ==
  wh_seed # None =>
    /\ wh_last = None =>
         /\ wh1.rand_seed_ = wh_seed[1]
         /\ [wh1 EXCEPT !.rand_seed_ = wh2.rand_seed_,
                        !.magnitude_ = wh2.magnitude_] = wh2
    /\ wh_differ => (wh_grain /\ wh_nonzero)

\* a grain ran before Init, and after it the used instance has returned a
\* sample that the fresh one did not
C28_OutputsDiffer ==
  /\ wh_seed # None
  /\ wh_grain
  /\ wh_last # None
  /\ wh_differ
-----------------------------------------------------------------------------
(* Scenario: an effect template is instantiated with a template argument *)

\* the template arguments: the defaults, the ones of the tests and of the
\* usage examples, and their neighbours
SzArguments == {16, 32, 64, 128, 256, 512, 640, 1024, 1280, 2048, 4096}

\* effect<arg> is named, its members are not instantiated yet
SzInit ==
  /\ \E effect \in Effects, arg \in SzArguments :
       sz = [effect |-> effect, arg |-> arg, fft_ |-> <<>>]
  /\ IdleExcept("sz")

\* the member FFTHandler<N> fft_ is instantiated: N, and whether its
\* static_assert holds
SzInstantiate ==
  /\ sz.fft_ = <<>>
  /\ sz' = [sz EXCEPT !.fft_ =
              <<[N |-> TransformSize(sz.effect, sz.arg),
                 asserted |-> FFTHandler_StaticAssert(
                                TransformSize(sz.effect, sz.arg))]>>]
  /\ UNCHANGED notSz

SzNext == SzInstantiate

SpecSizes == SzInit /\ [][SzNext]_vars

\* n is 2^k for some k
RECURSIVE IsPowerOfTwo(_)
IsPowerOfTwo(n) ==
  IF n <= 1 THEN n = 1 ELSE n % 2 = 0 /\ IsPowerOfTwo(n \div 2)

\* C24 (as claimed): the FFT engine of every effect instantiated with its
\* default template argument has a size N that is a power of two, with
\* N & (N - 1) = 0
C24_DefaultSizesArePowersOfTwo ==
  (sz.fft_ # <<>> /\ sz.arg = DefaultArgument(sz.effect)) =>
    /\ IsPowerOfTwo(sz.fft_[1].N)
    /\ BitAnd(sz.fft_[1].N, sz.fft_[1].N - 1) = 0

\* what holds instead: N & (N - 1) = 0 exactly for the powers of two, the
\* defaults of the other four effects give one, and SpectralFilter's N is
\* 2 * FIR_LENGTH, a power of two only if FIR_LENGTH is one: the default
\* 1280 gives N = 2560 and the static_assert of FFTHandler<2560> fails
C24_SizeFollowsArgument ==
  sz.fft_ # <<>> =>
    /\ sz.fft_[1].asserted <=> IsPowerOfTwo(sz.fft_[1].N)
    /\ (sz.arg = DefaultArgument(sz.effect) /\ sz.effect # "SpectralFilter")
         => sz.fft_[1].asserted
    /\ sz.effect = "SpectralFilter" =>
         /\ sz.fft_[1].N = 2 * sz.arg
         /\ sz.fft_[1].asserted <=> IsPowerOfTwo(sz.arg)

\* SpectralFilter<1280> instantiated: N = 2560, static_assert fails
C24_DefaultFilterRejected ==
  /\ sz.fft_ # <<>>
  /\ sz.effect = "SpectralFilter"
  /\ sz.arg = DefaultArgument("SpectralFilter")
  /\ sz.fft_[1].N = 2560
  /\ ~sz.fft_[1].asserted
-----------------------------------------------------------------------------
(* Scenario: one Robotization and one Whisperization, initialized; then
   SetHopSize and Process are called in any order on one of them *)

\* bound on the number of Process calls
IxMaxSteps == 5

\* the input samples drawn
IxSamples == {0, 4}

\* the two constructors and Init(48000) on both
IxInit ==
  /\ \E g1 \in WhGarbage, g2 \in WhGarbage :
       /\ rb = Robotization_Init(Robotization_Construct(g1), 48000)
       /\ wh1 = Whisperization_Init(Whisperization_Construct(g2), 48000)
  /\ rb_steps = 0
  /\ rb_recent = None
  /\ rb_last = None
  /\ rb_grain = <<>>
  /\ rb_age = None
  /\ wh2 = None
  /\ wh_seed = None
  /\ wh_steps = 0
  /\ wh_last = None
  /\ wh_grain = FALSE
  /\ wh_nonzero = FALSE
  /\ wh_differ = FALSE
  /\ IdleExcept("rb wh")

\* Robotization::SetHopSize, at any time
IxRbSetHopSize ==
  /\ wh_last = None
  /\ \E hop_size \in RbHopArgs :
       /\ rb' = Robotization_SetHopSize(rb, hop_size)
       /\ rb_last' = <<[op |-> "SetHopSize", hop_size |-> hop_size,
                        before |-> rb.hop_size_]>>
  /\ UNCHANGED <<rb_steps, rb_recent, rb_grain, rb_age>>
  /\ UNCHANGED <<whVars, notRb>>

\* Robotization::Process; rb_last keeps the indices the call used: where it
\* wrote input_buffer_, where it read and zeroed overlap_buffer_, and the
\* slots ProcessGrain added to
IxRbProcess ==
  /\ wh_last = None
  /\ rb_steps < IxMaxSteps
  /\ \E in \in IxSamples :
       LET res == Robotization_Process(rb, in)
       IN /\ rb' = res.obj
          /\ rb_last' = <<[op |-> "Process",
                           input_pos_  |-> rb.input_pos_,
                           output_pos_ |-> rb.output_pos_,
                           slots |-> IF res.grain = <<>> THEN {}
                                     ELSE Robotization_GrainSlots(res.grain[1])]>>
  /\ rb_steps' = rb_steps + 1
  /\ UNCHANGED <<rb_recent, rb_grain, rb_age>>
  /\ UNCHANGED <<whVars, notRb>>

\* Whisperization::SetHopSize, at any time
IxWhSetHopSize ==
  /\ rb_last = None
  /\ \E hop_size \in WhHopArgs :
       /\ wh1' = Whisperization_SetHopSize(wh1, hop_size)
       /\ wh_last' = <<[op |-> "SetHopSize", hop_size |-> hop_size,
                        before |-> wh1.hop_size_]>>
  /\ UNCHANGED <<wh2, wh_seed, wh_steps, wh_grain, wh_nonzero, wh_differ>>
  /\ UNCHANGED <<rbVars, notWh>>

\* Whisperization::Process; wh_last keeps the indices the call used
IxWhProcess ==
  /\ rb_last = None
  /\ wh_steps < IxMaxSteps
  /\ \E in \in IxSamples :
       LET res == Whisperization_Process(wh1, in)
       IN /\ wh1' = res.obj
          /\ wh_last' = <<[op |-> "Process",
                           input_pos_  |-> wh1.input_pos_,
                           output_pos_ |-> wh1.output_pos_,
                           slots |-> IF res.grain
                                       THEN Whisperization_GrainSlots(res.obj)
                                       ELSE {}]>>
  /\ wh_steps' = wh_steps + 1
  /\ UNCHANGED <<wh2, wh_seed, wh_grain, wh_nonzero, wh_differ>>
  /\ UNCHANGED <<rbVars, notWh>>

IxNext == IxRbSetHopSize \/ IxRbProcess \/ IxWhSetHopSize \/ IxWhProcess

SpecIndexSafety == IxInit /\ [][IxNext]_vars

\* what the last call on an instance of FFT size N did: a SetHopSize with 0
\* or more than N left hop_size_ as it was, and a Process call wrote
\* input_buffer_ and read overlap_buffer_ within [0, N) and added to
\* accumulator slots within [0, 2N)
IxCallInRange(obj, last, N) ==
  last # None =>
    /\ last[1].op = "SetHopSize" =>
         obj.hop_size_ = IF last[1].hop_size = 0 \/ last[1].hop_size > N
                           THEN last[1].before ELSE last[1].hop_size
    /\ last[1].op = "Process" =>
         /\ last[1].input_pos_ \in 0..(N - 1)
         /\ last[1].output_pos_ \in 0..(N - 1)
         /\ last[1].slots \subseteq 0..(2 * N - 1)

\* C29: after Init, under any interleaving of SetHopSize (any argument; 0
\* and values above N are ignored) and Process, input_pos_ is in [0, N) at
\* every write to input_buffer_, output_pos_ is in [0, N), and every
\* accumulator index used is in [0, 2N)
C29_IndicesInRange ==
  /\ IxCallInRange(rb, rb_last, Robotization_N)
  /\ IxCallInRange(wh1, wh_last, Whisperization_N)
  /\ rb.input_pos_ \in 0..(Robotization_N - 1)
  /\ rb.output_pos_ \in 0..(Robotization_N - 1)
  /\ wh1.input_pos_ \in 0..(Whisperization_N - 1)
  /\ wh1.output_pos_ \in 0..(Whisperization_N - 1)

\* with hop size N, a Process call of the Robotization has written
\* input_buffer_[N - 1] while output_pos_ was elsewhere (the hop size was
\* changed between Process calls) and has run a grain
C29_Witness ==
  /\ rb.hop_size_ = Robotization_N
  /\ rb_steps > Robotization_N
  /\ rb_last # None /\ rb_last[1].op = "Process"
  /\ rb_last[1].input_pos_ = Robotization_N - 1
  /\ rb_last[1].output_pos_ # Robotization_N - 1
  /\ rb_last[1].slots # {}
-----------------------------------------------------------------------------
(* Scenario: one Vibrato, initialized, then retuned and streamed in any
   order *)

\* bound on the number of Process calls
VbMaxSteps == 4

\* Init's sample rates, in Hz
VbRates == {200, 400}

\* the arguments of SetWidth (0.0025 s, 0.005 s, 0.01 s) and of SetFrequency
VbWidths == {25, 50, 100}
VbFreqs == {5, 100}

\* the input samples drawn, and what a read outside the array may give
VbSamples == {0, AmpOne}
VbGarbage == {0, AmpOne}

\* the constructor and Init(sample_rate)
VbInit ==
  /\ \E sample_rate \in VbRates :
       vb = Vibrato_Init(Vibrato_Construct(0), sample_rate)
  /\ vb_steps = 0
  /\ vb_last = <<>>
  /\ IdleExcept("vb")

VbSetWidth ==
  /\ \E width \in VbWidths : vb' = Vibrato_SetWidth(vb, width)
  /\ UNCHANGED <<vb_steps, vb_last>>
  /\ UNCHANGED notVb

VbSetFrequency ==
  /\ \E freq \in VbFreqs : vb' = Vibrato_SetFrequency(vb, freq)
  /\ UNCHANGED <<vb_steps, vb_last>>
  /\ UNCHANGED notVb

\* Process; vb_last keeps the indices the call used
VbProcess ==
  /\ vb_steps < VbMaxSteps
  /\ \E in \in VbSamples, garbage \in VbGarbage :
       LET r == Vibrato_Process(vb, in, garbage)
       IN /\ vb' = r.obj
          /\ vb_last' = <<r.tap>>
  /\ vb_steps' = vb_steps + 1
  /\ UNCHANGED notVb

VbNext == VbSetWidth \/ VbSetFrequency \/ VbProcess

SpecVibrato == VbInit /\ [][VbNext]_vars

\* the length of the delay line that Init allocated
VbAllocated == Len(vb.delay_line_)

\* C30 (as claimed): after Init and any sequence of SetWidth, SetFrequency
\* and Process calls, delay_line_size_ does not exceed the allocated
\* length, and the write pointer and both interpolation read indices are
\* within the allocated delay line
C30_WithinAllocated ==
  /\ vb.delay_line_size_ <= VbAllocated
  /\ vb.write_ptr_ \in 0..(VbAllocated - 1)
  /\ vb_last # <<>> =>
       /\ vb_last[1].write \in 0..(VbAllocated - 1)
       /\ vb_last[1].read_ptr \in 0..(VbAllocated - 1)
       /\ vb_last[1].read_ptr_prev \in 0..(VbAllocated - 1)

\* what holds instead: delay_line_size_ is recomputed from the current
\* width (2 + 3 * the width in samples) while the array keeps the length
\* that Init gave it for 0.005 s, so it exceeds the allocated length exactly
\* when the width in samples is above Init's; the write pointer stays below
\* the largest delay_line_size_ and the read indices are below the current one
C30_SizeFollowsWidth ==
  /\ vb.write_ptr_ \in 0..(2 + 3 * Vibrato_WidthInSamples(100, vb.sample_rate_) - 1)
  /\ vb_last # <<>> =>
       \E width \in VbWidths :
         LET size == 2 + 3 * Vibrato_WidthInSamples(width, vb.sample_rate_)
         IN /\ vb_last[1].read_ptr \in 0..(size - 1)
            /\ vb_last[1].read_ptr_prev \in 0..(size - 1)
  /\ vb.delay_line_size_
       = 2 + 3 * Vibrato_WidthInSamples(vb.width_, vb.sample_rate_)
  /\ VbAllocated = 2 + 3 * Vibrato_WidthInSamples(50, vb.sample_rate_)
  /\ vb.delay_line_size_ > VbAllocated
       <=> Vibrato_WidthInSamples(vb.width_, vb.sample_rate_)
             > Vibrato_WidthInSamples(50, vb.sample_rate_)

\* after SetWidth(0.01) a Process call has read the delay line past its
\* allocated length
C30_ReadPastEnd ==
  /\ vb.width_ = 100
  /\ vb_last # <<>>
  /\ vb_last[1].read_ptr >= VbAllocated

====
